---------------------------- MODULE Spec2Model ----------------------------
(***************************************************************************)
(* A model of holo-build: the package filesystem tree (libpackagebuild     *)
(* filesystem package), the package model, the Holo integration and the    *)
(* orchestration in main().                                                *)
(***************************************************************************)
EXTENDS Integers, Sequences, FiniteSets, TLC

VARIABLES
    FSRoot,     \* Package.FSRoot: the root *filesystem.Directory
    lastOp,     \* the most recent tree operation, its arguments and result
    nIns,       \* number of tree operations performed so far
    pc,         \* where main() stands
    input,      \* the package definition given to this and every later run
    env,        \* what the surroundings let the program do
    opts,       \* the options parsed from the command line
    pkg,        \* the *build.Package (its FSRoot is the variable FSRoot)
    rpm,        \* the RPM generator: the header it fills and the file it built
    nodes,      \* the nodes a caller inserts one by one: all of them, and those left
    mtree,      \* a text handed to mtreeEscapeString, and what came back
    errs,       \* the errors collected so far
    shown,      \* the errors written to stderr
    stdout,     \* what was written to stdout
    exitCode,   \* the exit code, once pc is "exited"
    disk,       \* the file that the output path names
    pkgBytes,   \* the result of generator.Build()
    now,        \* the clock: the number of the running invocation
    obs         \* what the run did so far, kept for the properties

mainVars ==
    <<pc, input, env, opts, pkg, errs, shown, stdout, exitCode, disk, pkgBytes, now, obs>>
vars == <<FSRoot, lastOp, nIns, mainVars, rpm, nodes, mtree>>

(***************************************************************************)
(* Bounds and input domains                                                *)
(***************************************************************************)
MaxInserts == 3
MaxRuns == 2
MaxRecords == 3
MaxNodes == 3
MaxText == 2

\* An absolute path "/s1/s2/.../sn" is the sequence <<s1, ..., sn>> of the
\* segments between its slashes; "/" is <<>> and "/etc/" is <<"etc", "">>.
\* A path that is not absolute has abs = FALSE ("" is [abs |-> FALSE, segs |-> <<>>]).
AbsPath(segs) == [abs |-> TRUE, segs |-> segs]

TreePaths ==
    { AbsPath(<<>>), AbsPath(<<"etc">>), AbsPath(<<"etc", "foo">>),
      AbsPath(<<"etc", "foo", "bar">>), AbsPath(<<"etc", "bar">>),
      AbsPath(<<".">>) }

ParserPaths ==
    TreePaths \cup { AbsPath(<<"etc", "">>), [abs |-> FALSE, segs |-> <<"etc">>],
                     [abs |-> FALSE, segs |-> <<>>] }

\* byte-wise order of the names used in paths (sort.Strings)
NameOrder ==
    <<"", ".", "..", ".INSTALL", ".MTREE", ".PKGINFO", "Upper", "a b", "a\\b", "bar",
      "etc", "files", "foo", "foo.conf", "holo", "holo-files", "holo-users", "pkg", "share",
      "users", "usr", "x.toml">>

(***************************************************************************)
(* filesystem.Node values                                                  *)
(***************************************************************************)
NoEntry == [type |-> "none"]
NilRef == [nil |-> TRUE, Int |-> 0, Str |-> ""]
IdRef(i) == [nil |-> FALSE, Int |-> i, Str |-> ""]
NameRef(s) == [nil |-> FALSE, Int |-> 0, Str |-> s]
EmptyEntries == [n \in {} |-> NoEntry]

IsDir(n) == n.type = "Directory"

NewDirectory ==
    [type |-> "Directory", Entries |-> EmptyEntries,
     Metadata |-> [Mode |-> 493, Owner |-> NilRef, Group |-> NilRef],
     Implicit |-> FALSE]

DeclaredDir(meta) == [NewDirectory EXCEPT !.Metadata = meta]

MetaA == [Mode |-> 448, Owner |-> IdRef(1000), Group |-> NilRef]
MetaB == [Mode |-> 493, Owner |-> NameRef("alice"), Group |-> NameRef("staff")]
DirMetas == {MetaA, MetaB}

File1 ==
    [type |-> "RegularFile", Content |-> "x\n",
     Metadata |-> [Mode |-> 420, Owner |-> NilRef, Group |-> NameRef("staff")]]
Link1 == [type |-> "Symlink", Target |-> "/etc"]

\* a directory that is handed to Insert with an entry of its own
DirWithChild == [DeclaredDir(MetaA) EXCEPT !.Entries = ("bar" :> File1)]
\* a directory handed to Insert with the Implicit flag already set
ImplicitDir == [NewDirectory EXCEPT !.Implicit = TRUE]

ApiEntries ==
    {DeclaredDir(MetaA), DeclaredDir(MetaB), DirWithChild, ImplicitDir, File1, Link1}

(***************************************************************************)
(* Directory.Insert                                                        *)
(***************************************************************************)
ErrNone == "none"
ErrDuplicate == "duplicate entry"
ErrNotADirectory == "not a directory"
ErrInvalidPath == "invalid path"
ErrRel == "cannot make path relative"

\* the directory that Insert spawns for a missing intermediate path element
SpawnedDirectory == [NewDirectory EXCEPT !.Implicit = TRUE]

\* variant: the entries below the replaced directory are dropped
AdoptEntries_Dropping(dirNew, dirOld) == dirNew

\* "for key, value := range dirOld.Entries { dirNew.Entries[key] = value }"
AdoptEntries(dirNew, dirOld) ==
    [dirNew EXCEPT !.Entries = dirOld.Entries @@ dirNew.Entries]

\* variant: no entry is ever replaced
MayReplace_Never(subentry, entry) == FALSE

\* variant: any directory, implicit or not, is replaced by a new directory
MayReplace_AnyDir(subentry, entry) == IsDir(subentry) /\ IsDir(entry)

\* may the entry found at the final path element be replaced by the new one?
MayReplace(subentry, entry) ==
    IsDir(subentry) /\ IsDir(entry) /\ subentry.Implicit

PutEntry(d, subname, node) ==
    [d EXCEPT !.Entries = (subname :> node) @@ d.Entries]

\* variant: a file or symlink in the way is replaced by a spawned directory
SpawnIfMissing_OverLeaf(d, subname) ==
    IF subname \in DOMAIN d.Entries /\ IsDir(d.Entries[subname]) THEN d
    ELSE [d EXCEPT !.Entries = (subname :> SpawnedDirectory) @@ d.Entries]

\* variant: a directory found on the way is marked as implicit
SpawnIfMissing_MarksFound(d, subname) ==
    IF subname \notin DOMAIN d.Entries
    THEN [d EXCEPT !.Entries = (subname :> SpawnedDirectory) @@ d.Entries]
    ELSE IF IsDir(d.Entries[subname])
    THEN [d EXCEPT !.Entries[subname].Implicit = TRUE]
    ELSE d

\* "if subentry == nil { subentry = NewDirectory(); ...Implicit = true; ... }"
SpawnIfMissing(d, subname) ==
    IF subname \in DOMAIN d.Entries THEN d ELSE PutEntry(d, subname, SpawnedDirectory)

\* The result is [err, node]: the error and the receiver as the call left it.
RECURSIVE DirInsert(_, _, _)
DirInsert(d, entry, relPath) ==
    IF Len(relPath) = 0 THEN [err |-> ErrDuplicate, node |-> d]
    ELSE
      LET subname == Head(relPath)
          present == subname \in DOMAIN d.Entries
      IN IF Len(relPath) = 1
         THEN IF present
              THEN IF ~MayReplace(d.Entries[subname], entry)
                   THEN [err |-> ErrDuplicate, node |-> d]
                   ELSE [err |-> ErrNone,
                         node |-> PutEntry(d, subname,
                                           AdoptEntries(entry, d.Entries[subname]))]
              ELSE [err |-> ErrNone, node |-> PutEntry(d, subname, entry)]
         ELSE LET d1 == SpawnIfMissing(d, subname)
                  subentry == d1.Entries[subname]
              IN IF ~IsDir(subentry)
                 THEN [err |-> ErrNotADirectory, node |-> d1]
                 ELSE LET r == DirInsert(subentry, entry, Tail(relPath))
                      IN [err |-> r.err, node |-> PutEntry(d1, subname, r.node)]

(***************************************************************************)
(* Package.InsertFSNode                                                    *)
(***************************************************************************)
\* filepath.Clean on the segments of a rooted path: empty and "." segments
\* are dropped, ".." removes the segment before it (and is dropped at the root)
RECURSIVE CleanSegs(_, _)
CleanSegs(done, rest) ==
    IF rest = <<>> THEN done
    ELSE LET s == Head(rest)
         IN IF s = "" \/ s = "." THEN CleanSegs(done, Tail(rest))
            ELSE IF s = ".."
                 THEN CleanSegs(IF done = <<>> THEN done
                                ELSE SubSeq(done, 1, Len(done) - 1), Tail(rest))
                 ELSE CleanSegs(Append(done, s), Tail(rest))

\* strings.Split(filepath.Rel("/", absolutePath), "/"); Rel yields "." for the
\* root itself and reports an error for a path that is not absolute
RelSplit(path) ==
    IF CleanSegs(<<>>, path.segs) = <<>> THEN <<".">> ELSE CleanSegs(<<>>, path.segs)

InsertFSNodeResult(root, path, entry) ==
    IF ~path.abs THEN [err |-> ErrRel, node |-> root]
    ELSE DirInsert(root, entry, RelSplit(path))

(***************************************************************************)
(* validatePath (parser.go)                                                *)
(***************************************************************************)
HasTrailingSlash(path) ==
    path.abs /\ (path.segs = <<>> \/ path.segs[Len(path.segs)] = "")

\* variant: the check for trailing slashes is missing
validatePath_NoSlashCheck(path) == path.abs

validatePath(path) ==
    IF path.segs = <<>> /\ ~path.abs THEN FALSE
    ELSE IF ~path.abs THEN FALSE
    ELSE IF HasTrailingSlash(path) THEN FALSE
    ELSE TRUE

(***************************************************************************)
(* Reading the tree                                                        *)
(***************************************************************************)
\* the node at the relative path segs below d, NoEntry if there is none
RECURSIVE NodeAt(_, _)
NodeAt(d, segs) ==
    IF segs = <<>> THEN d
    ELSE IF ~IsDir(d) \/ Head(segs) \notin DOMAIN d.Entries THEN NoEntry
    ELSE NodeAt(d.Entries[Head(segs)], Tail(segs))

Restrict(f, S) == [x \in S |-> f[x]]

\* d without the node at segs (and everything below it)
RECURSIVE RemoveAt(_, _)
RemoveAt(d, segs) ==
    IF segs = <<>> \/ ~IsDir(d) \/ Head(segs) \notin DOMAIN d.Entries THEN d
    ELSE IF Len(segs) = 1
         THEN [d EXCEPT !.Entries = Restrict(d.Entries, DOMAIN d.Entries \ {Head(segs)})]
         ELSE [d EXCEPT !.Entries[Head(segs)] = RemoveAt(d.Entries[Head(segs)], Tail(segs))]

\* the operation record describes a call of InsertFSNode that reached FSRoot.Insert
Inserted(o) ==
    \/ o.op = "insert" /\ o.path.abs
    \/ o.op = "directory" /\ validatePath(o.path)

\* what the operation before this one left at the same place: "implicit" for
\* an implicit directory, "other" for any other node, "no" if the operation
\* before was not a successful insertion at the same place
RepeatOf(root, o, path) ==
    IF Inserted(o) /\ o.err = ErrNone /\ path.abs /\ RelSplit(o.path) = RelSplit(path)
    THEN LET A == NodeAt(root, RelSplit(path))
         IN IF IsDir(A) /\ A.Implicit THEN "implicit" ELSE "other"
    ELSE "no"

(***************************************************************************)
(* Directory.Walk                                                          *)
(***************************************************************************)
RECURSIVE IndexIn(_, _)
IndexIn(seq, x) ==
    IF seq = <<>> THEN 1 ELSE IF Head(seq) = x THEN 1 ELSE 1 + IndexIn(Tail(seq), x)

\* a < b for strings, byte-wise
StrLess(a, b) == IndexIn(NameOrder, a) < IndexIn(NameOrder, b)

RECURSIVE InsertSorted(_, _)
InsertSorted(sorted, x) ==
    IF sorted = <<>> THEN <<x>>
    ELSE IF StrLess(x, Head(sorted)) THEN <<x>> \o sorted
    ELSE <<Head(sorted)>> \o InsertSorted(Tail(sorted), x)

RECURSIVE SortedFrom(_, _)
SortedFrom(acc, rest) ==
    IF rest = <<>> THEN acc ELSE SortedFrom(InsertSorted(acc, Head(rest)), Tail(rest))

\* variant: the names are used in the order in which the map yielded them
SortStrings_Unsorted(names) == names

\* sort.Strings
SortStrings(names) == SortedFrom(<<>>, names)

\* The orders in which a range over a map may yield its keys: order is a
\* listing of all names, and the keys of the map come out as listed there.
Reverse(seq) == [i \in 1..Len(seq) |-> seq[Len(seq) + 1 - i]]
Rotate(seq) == Tail(seq) \o <<Head(seq)>>
MapOrders == {NameOrder, Reverse(NameOrder), Rotate(Reverse(NameOrder))}

RECURSIVE KeysInOrder(_, _)
KeysInOrder(keys, order) ==
    IF order = <<>> THEN <<>>
    ELSE (IF Head(order) \in keys THEN <<Head(order)>> ELSE <<>>)
         \o KeysInOrder(keys, Tail(order))

\* Walk with a callback that always returns nil: the visits, in order, as
\* [path, node]; path is the list of segments of the absolute path.
RECURSIVE WalkAll(_, _, _)
RECURSIVE WalkChildren(_, _, _, _)
\* variant: a directory is visited after its entries
WalkAll_ChildrenFirst(node, path, order) ==
    IF IsDir(node)
    THEN WalkChildren(node, path,
                      SortStrings(KeysInOrder(DOMAIN node.Entries, order)), order)
         \o <<[path |-> path, node |-> node]>>
    ELSE <<[path |-> path, node |-> node]>>

WalkAll(node, path, order) ==
    IF IsDir(node)
    THEN <<[path |-> path, node |-> node]>>
         \o WalkChildren(node, path,
                         SortStrings(KeysInOrder(DOMAIN node.Entries, order)), order)
    ELSE <<[path |-> path, node |-> node]>>
WalkChildren(d, path, names, order) ==
    IF names = <<>> THEN <<>>
    ELSE WalkAll(d.Entries[Head(names)], Append(path, Head(names)), order)
         \o WalkChildren(d, path, Tail(names), order)

\* A callback is given by the paths for which it returns filepath.SkipDir and
\* the paths for which it returns another error; elsewhere it returns nil.
SkipDir == "skip this directory"
ErrCallback == "callback failed"
NilCallback == [skip |-> {}, fail |-> {}]
CallbackResult(cb, path) ==
    IF path \in cb.fail THEN ErrCallback
    ELSE IF path \in cb.skip THEN SkipDir
    ELSE ErrNone

RECURSIVE WalkEntries(_, _, _, _, _)
\* variant: the directory hands the answer of its callback to its caller
Walk_SkipPropagates(node, path, order, cb) ==
    LET err == CallbackResult(cb, path)
        self == <<[path |-> path, node |-> node]>>
    IN IF ~IsDir(node) \/ err # ErrNone THEN [visits |-> self, err |-> err]
       ELSE LET sub == WalkEntries(node, path,
                           SortStrings(KeysInOrder(DOMAIN node.Entries, order)), order, cb)
            IN [visits |-> self \o sub.visits, err |-> sub.err]

\* Walk of a Directory, a RegularFile or a Symlink with any callback: the
\* visits made and the error returned
RECURSIVE Walk(_, _, _, _)
Walk(node, path, order, cb) ==
    LET err == CallbackResult(cb, path)
        self == <<[path |-> path, node |-> node]>>
    IN IF ~IsDir(node) THEN [visits |-> self, err |-> err]
       ELSE IF err = SkipDir THEN [visits |-> self, err |-> ErrNone]
       ELSE IF err # ErrNone THEN [visits |-> self, err |-> err]
       ELSE LET sub == WalkEntries(node, path,
                           SortStrings(KeysInOrder(DOMAIN node.Entries, order)), order, cb)
            IN [visits |-> self \o sub.visits, err |-> sub.err]

\* the loop over the sorted names of a directory
WalkEntries(d, path, names, order, cb) ==
    IF names = <<>> THEN [visits |-> <<>>, err |-> ErrNone]
    ELSE LET first == Walk(d.Entries[Head(names)], Append(path, Head(names)), order, cb)
             rest == WalkEntries(d, path, Tail(names), order, cb)
         IN IF first.err # ErrNone /\ first.err # SkipDir THEN first
            ELSE [visits |-> first.visits \o rest.visits, err |-> rest.err]

(***************************************************************************)
(* Package actions and DoMagicalHoloIntegration                            *)
(***************************************************************************)
SetupAction == "setup"
CleanupAction == "cleanup"
\* One unit of output or one line of a script; every one has the same shape.
Chunk(kind, a, b, path) == [kind |-> kind, a |-> a, b |-> b, path |-> path]
ScriptLine(cmd, owner, group, path) == Chunk(cmd, owner, group, path)
HoloApply == <<ScriptLine("holo apply", "", "", <<>>)>>

\* PackageAction; Content is the list of the lines of the script
Action(type, content) == [Type |-> type, Content |-> content]
Relation(name) == [RelatedPackage |-> name, Constraints |-> <<>>]

\* variant: the new actions go behind the old ones
PrependActions_Appends(actions, new) == actions \o new

PrependActions(actions, new) == new \o actions

\* "holo-" + pluginID
HoloDepName(pluginID) ==
    CASE pluginID = "files" -> "holo-files"
      [] pluginID = "users" -> "holo-users"
      [] OTHER -> "holo-other"

\* strings.HasPrefix(path, "/usr/share/holo/") && len(strings.Split(path, "/")) > 5
BelowHoloPlugin(path) ==
    /\ Len(path) >= 5
    /\ SubSeq(path, 1, 3) = <<"usr", "share", "holo">>

PluginSet(root, order) ==
    LET visits == WalkAll(root, <<>>, order)
    IN { visits[i].path[4] : i \in { j \in 1..Len(visits) : BelowHoloPlugin(visits[j].path) } }

HasDep(requires, depName) ==
    \E i \in 1..Len(requires) : requires[i].RelatedPackage = depName

\* variant: a requirement is added for every plugin, present or not
RECURSIVE AddHoloDeps_Always(_, _)
AddHoloDeps_Always(requires, pluginIDs) ==
    IF pluginIDs = <<>> THEN requires
    ELSE AddHoloDeps_Always(Append(requires, Relation(HoloDepName(Head(pluginIDs)))),
                            Tail(pluginIDs))

RECURSIVE AddHoloDeps(_, _)
AddHoloDeps(requires, pluginIDs) ==
    IF pluginIDs = <<>> THEN requires
    ELSE AddHoloDeps(IF HasDep(requires, HoloDepName(Head(pluginIDs))) THEN requires
                     ELSE Append(requires, Relation(HoloDepName(Head(pluginIDs)))),
                     Tail(pluginIDs))

\* variant: the package stays as it was parsed
DoMagicalHoloIntegration_Nothing(p, root, order) == p

\* the package after DoMagicalHoloIntegration
DoMagicalHoloIntegration(p, root, order) ==
    LET plugins == PluginSet(root, order)
        pluginIDs == SortStrings(KeysInOrder(plugins, order))
    IN IF plugins = {} THEN p
       ELSE [p EXCEPT !.Requires = AddHoloDeps(p.Requires, pluginIDs),
                      !.Actions = PrependActions(p.Actions,
                                      <<Action(SetupAction, HoloApply),
                                        Action(CleanupAction, HoloApply)>>)]


(***************************************************************************)
(* PostponeUnmaterializable, PrepareBuild, Script                          *)
(***************************************************************************)
HasName(ref) == ~ref.nil /\ ref.Str # ""

\* variant: the names stay in the metadata
postponeUnmaterializable_KeepsNames(m, path) ==
    LET ownerStr == IF HasName(m.Owner) THEN m.Owner.Str ELSE ""
        groupStr == IF HasName(m.Group) THEN m.Group.Str ELSE ""
    IN [script |-> IF ownerStr # "" THEN <<ScriptLine("chown", ownerStr, groupStr, path)>>
                   ELSE IF groupStr # "" THEN <<ScriptLine("chgrp", "", groupStr, path)>>
                   ELSE <<>>,
        meta |-> m]

\* NodeMetadata.postponeUnmaterializable: the script lines, and the metadata
\* with the named owner and group removed
postponeUnmaterializable(m, path) ==
    LET ownerStr == IF HasName(m.Owner) THEN m.Owner.Str ELSE ""
        groupStr == IF HasName(m.Group) THEN m.Group.Str ELSE ""
    IN [script |-> IF ownerStr # "" THEN <<ScriptLine("chown", ownerStr, groupStr, path)>>
                   ELSE IF groupStr # "" THEN <<ScriptLine("chgrp", "", groupStr, path)>>
                   ELSE <<>>,
        meta |-> [m EXCEPT !.Owner = IF HasName(m.Owner) THEN NilRef ELSE @,
                           !.Group = IF HasName(m.Group) THEN NilRef ELSE @]]

RECURSIVE PostponeUnmaterializable(_, _, _)
RECURSIVE PostponeChildren(_, _, _, _)
PostponeUnmaterializable(node, path, order) ==
    IF node.type = "Symlink" THEN [script |-> <<>>, node |-> node]
    ELSE LET own == postponeUnmaterializable(node.Metadata, path)
             self == [node EXCEPT !.Metadata = own.meta]
         IN IF IsDir(node)
            THEN LET sub == PostponeChildren(self, path,
                                SortStrings(KeysInOrder(DOMAIN node.Entries, order)), order)
                 IN [script |-> own.script \o sub.script, node |-> sub.node]
            ELSE [script |-> own.script, node |-> self]
PostponeChildren(d, path, names, order) ==
    IF names = <<>> THEN [script |-> <<>>, node |-> d]
    ELSE LET first == PostponeUnmaterializable(d.Entries[Head(names)],
                                               Append(path, Head(names)), order)
             rest == PostponeChildren([d EXCEPT !.Entries[Head(names)] = first.node],
                                      path, Tail(names), order)
         IN [script |-> first.script \o rest.script, node |-> rest.node]

\* Package.PrepareBuild: the package and the tree it leaves
PrepareBuild(p, root, order) ==
    LET post == PostponeUnmaterializable(root, <<>>, order)
    IN [pkg |-> IF post.script # <<>>
                THEN [p EXCEPT !.Actions =
                          PrependActions(@, <<Action(SetupAction, post.script)>>)]
                ELSE p,
        root |-> post.node]

RECURSIVE Script(_, _)
Script(actions, actionType) ==
    IF actions = <<>> THEN <<>>
    ELSE (IF Head(actions).Type = actionType THEN Head(actions).Content ELSE <<>>)
         \o Script(Tail(actions), actionType)

(***************************************************************************)
(* ParsePackageDefinition                                                  *)
(***************************************************************************)
ErrDecode == "toml: cannot decode"
ErrPrereleaseType == "Invalid prereleaseType"
ErrPrereleaseNoNonzero == "Invalid (nonzero) prereleaseNo for prereleaseType \"none\""
ErrPrereleaseNoZero == "Invalid prereleaseNo (0) for prereleaseType (not \"none\")"
ErrMissingName == "Missing package name"
ErrInvalidName == "Invalid package name (may not contain slashes or newlines)"
ErrMissingVersion == "Missing package version"
ErrInvalidVersion == "Invalid package version"
ErrInvalidAuthor == "Invalid package author"
ErrInvalidReference == "Invalid package reference in requires"
ErrNameNotAcceptable == "Package name is not acceptable for packages of this format"
ErrRelatedNotAcceptable ==
    "Package name is not acceptable for packages of this format (found in requires)"
ErrVersionNotAcceptable == "Version is not acceptable for packages of this format"
ErrInvalidAction == "action is invalid"
ErrAuthorRequired == "The \"package.author\" field is required for Debian packages"
ErrOpenInput == "open: no such file or directory"

PrereleaseTypeNone == "none"
prerelTypeMap == [t \in {"none", "alpha", "beta"} |-> t]

\* the strings of the model that the regular expressions of the parser match
ContainsSlashOrNewline(name) == name \in {"a/b"}
versionRx(version) == version \in {"1.0"}
authorRx(author) == author \in {"Jane Doe <jane@example.org>"}
relatedPackageRx(spec) ==
    spec \in {"holo-files", "holo-users", "Upper", "group:foo-bar", "except:bar",
              "holo-files>=1.0", "group:foo-"}

\* the submatches of relatedPackageRx: the name, the operator and the version
FindStringSubmatch(spec) ==
    CASE spec = "holo-files>=1.0" ->
            [name |-> "holo-files", relation |-> ">=", version |-> "1.0"]
      [] OTHER -> [name |-> spec, relation |-> "", version |-> ""]

VersionConstraint(relation, version) == [Relation |-> relation, Version |-> version]

NilPackage ==
    [nil |-> TRUE, Name |-> "", Version |-> "", PrereleaseType |-> PrereleaseTypeNone,
     PrereleaseNo |-> 0, Author |-> "", Requires |-> <<>>, Actions |-> <<>>]

ImplicitRoot == [NewDirectory EXCEPT !.Implicit = TRUE]

RECURSIVE parseRelatedPackages(_, _, _)
parseRelatedPackages(rels, errors, specs) ==
    IF specs = <<>> THEN [rels |-> rels, errs |-> errors]
    ELSE IF ~relatedPackageRx(Head(specs))
         THEN parseRelatedPackages(rels, Append(errors, ErrInvalidReference), Tail(specs))
         ELSE LET match == FindStringSubmatch(Head(specs))
                  known == IF HasDep(rels, match.name) THEN rels
                           ELSE Append(rels, Relation(match.name))
              IN parseRelatedPackages(
                     [i \in 1..Len(known) |->
                         IF known[i].RelatedPackage = match.name /\ match.relation # ""
                         THEN [known[i] EXCEPT !.Constraints =
                                  Append(@, VersionConstraint(match.relation, match.version))]
                         ELSE known[i]],
                     errors, Tail(specs))

\* the owner or group of a section: absent, a name or an id
parseUserOrGroupRef(value) ==
    IF value.nil THEN NilRef
    ELSE IF value.Str # "" THEN NameRef(value.Str)
    ELSE IdRef(value.Int)

FileNode(content, owner) ==
    [type |-> "RegularFile", Content |-> content,
     Metadata |-> [Mode |-> 420, Owner |-> parseUserOrGroupRef(owner), Group |-> NilRef]]

\* maps the values of "action.on" to the action types
actionTypeMap == [setup |-> SetupAction, cleanup |-> CleanupAction]

\* the loop over the action sections: the actions and the errors it leaves
RECURSIVE ParseActions(_, _, _)
ParseActions(actions, errors, sections) ==
    IF sections = <<>> THEN [actions |-> actions, errs |-> errors]
    ELSE LET data == Head(sections)
             typeErrs == IF data.On \in DOMAIN actionTypeMap THEN <<>>
                         ELSE <<ErrInvalidAction>>
             scriptErrs == IF data.Script = "" THEN <<ErrInvalidAction>> ELSE <<>>
         IN ParseActions(IF typeErrs \o scriptErrs = <<>>
                         THEN Append(actions,
                                     Action(actionTypeMap[data.On],
                                            <<ScriptLine(data.Script, "", "", <<>>)>>))
                         ELSE actions,
                         errors \o typeErrs \o scriptErrs, Tail(sections))

\* the loop over the file sections: the tree and the errors it leaves
RECURSIVE ParseFiles(_, _, _)
ParseFiles(root, errors, files) ==
    IF files = <<>> THEN [root |-> root, errs |-> errors]
    ELSE IF ~validatePath(Head(files).path)
         THEN ParseFiles(root, Append(errors, ErrInvalidPath), Tail(files))
         ELSE LET r == InsertFSNodeResult(root, Head(files).path,
                                          FileNode(Head(files).content, Head(files).owner))
              IN ParseFiles(r.node,
                            IF r.err = ErrNone THEN errors ELSE Append(errors, r.err),
                            Tail(files))

ParsePackageDefinition(in) ==
    LET failed(err) == [pkg |-> NilPackage, root |-> ImplicitRoot, errs |-> <<err>>]
        ptype == IF in.PrereleaseType = "" THEN PrereleaseTypeNone
                 ELSE prerelTypeMap[in.PrereleaseType]
        nameErrs == IF in.Name = "" THEN <<ErrMissingName>>
                    ELSE IF ContainsSlashOrNewline(in.Name) THEN <<ErrInvalidName>>
                    ELSE <<>>
        versionErrs == IF in.Version = "" THEN <<ErrMissingVersion>>
                       ELSE IF ~versionRx(in.Version) THEN <<ErrInvalidVersion>>
                       ELSE <<>>
        authorErrs == IF in.Author # "" /\ ~authorRx(in.Author)
                      THEN <<ErrInvalidAuthor>> ELSE <<>>
        requires == parseRelatedPackages(<<>>, nameErrs \o versionErrs \o authorErrs,
                                         in.Requires)
        actions == ParseActions(<<>>, requires.errs, in.Action)
        files == ParseFiles(ImplicitRoot, actions.errs, in.File)
    IN IF ~in.toml THEN failed(ErrDecode)
       ELSE IF in.PrereleaseType # "" /\ in.PrereleaseType \notin DOMAIN prerelTypeMap
       THEN failed(ErrPrereleaseType)
       ELSE IF ptype = PrereleaseTypeNone /\ in.PrereleaseNo # 0
       THEN failed(ErrPrereleaseNoNonzero)
       ELSE IF ptype # PrereleaseTypeNone /\ in.PrereleaseNo = 0
       THEN failed(ErrPrereleaseNoZero)
       ELSE [pkg |-> [nil |-> FALSE,
                      Name |-> IF ContainsSlashOrNewline(in.Name) THEN "" ELSE in.Name,
                      Version |-> IF versionRx(in.Version) THEN in.Version ELSE "",
                      PrereleaseType |-> ptype, PrereleaseNo |-> in.PrereleaseNo,
                      Author |-> in.Author, Requires |-> requires.rels,
                      Actions |-> actions.actions],
             root |-> files.root, errs |-> files.errs]

(***************************************************************************)
(* Generator.Validate                                                      *)
(***************************************************************************)
\* the strings of the model that match the nameRx of the Debian generator,
\* [a-z0-9][a-z0-9+-.]+, and of the pacman generator, [a-z0-9@._+][a-z0-9@._+-]*
DebianNameRx(name) == name \in {"pkg", "holo-files", "holo-users"}
PacmanNameRx(name) == name \in {"pkg", "holo-files", "holo-users"}
\* RelatedName of the pacman generator: (?:except:)?(?:group:)? before the name
PacmanRelatedRx(name) ==
    PacmanNameRx(name) \/ name \in {"group:foo-bar", "except:bar", "group:foo-"}

\* the compiledRegexSet of the generator of the format
PackageNameRx(format, name) ==
    IF format = "debian" THEN DebianNameRx(name) ELSE PacmanNameRx(name)
RelatedNameRx(format, name) ==
    IF format = "debian" THEN DebianNameRx(name) ELSE PacmanRelatedRx(name)

\* the versions of the model that match RelatedVersion of either generator
RelatedVersionRx(version) == version \in {"1.0"}

\* variant: no relation is ever found wanting
validatePackageRelations_Nothing(format, rels) == <<>>

RECURSIVE validatePackageRelations(_, _)
validatePackageRelations(format, rels) ==
    IF rels = <<>> THEN <<>>
    ELSE (IF RelatedNameRx(format, Head(rels).RelatedPackage) THEN <<>>
          ELSE <<ErrRelatedNotAcceptable>>)
         \o [i \in 1..Len(SelectSeq(Head(rels).Constraints,
                                     LAMBDA c : ~RelatedVersionRx(c.Version))) |->
                ErrVersionNotAcceptable]
         \o validatePackageRelations(format, Tail(rels))

\* Package.ValidateWith: the version, the release and the architecture of a
\* parsed package pass for every generator.
ValidateWith(p, format) ==
    (IF p.Name # "" /\ ~PackageNameRx(format, p.Name) THEN <<ErrNameNotAcceptable>>
     ELSE <<>>)
    \o validatePackageRelations(format, p.Requires)

\* variant: the generator accepts every package
GeneratorValidate_AcceptAll(p, format) == <<>>

\* Generator.Validate of the Debian, the pacman and the RPM generator
GeneratorValidate(p, format) ==
    CASE format = "debian" ->
            ValidateWith(p, format)
            \o (IF p.Author = "" THEN <<ErrAuthorRequired>> ELSE <<>>)
      [] format = "pacman" -> ValidateWith(p, format)
      [] OTHER -> <<>>

(***************************************************************************)
(* compilePackageRequirements of the pacman generator                      *)
(***************************************************************************)
\* the relation names of the model, taken apart as HasPrefix/TrimPrefix do
RelName(name) ==
    CASE name = "group:foo-bar" -> [isNegated |-> FALSE, isGroup |-> TRUE, name |-> "foo-bar"]
      [] name = "group:foo-" -> [isNegated |-> FALSE, isGroup |-> TRUE, name |-> "foo-"]
      [] name = "except:bar" -> [isNegated |-> TRUE, isGroup |-> FALSE, name |-> "bar"]
      [] OTHER -> [isNegated |-> FALSE, isGroup |-> FALSE, name |-> name]

\* with HOLO_MOCK=1: strings.Split(groupName, "-")
resolvePackageGroup(groupName) ==
    CASE groupName = "foo-bar" -> <<"foo", "bar">>
      [] groupName = "foo-" -> <<"foo", "">>
      [] OTHER -> <<groupName>>

SeqRange(seq) == { seq[i] : i \in 1..Len(seq) }

\* the first loop: acceptPkg and actualRels after all relations were read
RECURSIVE ReadRelations(_, _, _)
ReadRelations(acceptPkg, actualRels, rels) ==
    IF rels = <<>> THEN [acceptPkg |-> acceptPkg, actualRels |-> actualRels]
    ELSE LET rel == Head(rels)
             n == RelName(rel.RelatedPackage)
             pkgs == SeqRange(resolvePackageGroup(n.name))
         IN IF n.isGroup
            THEN ReadRelations([k \in DOMAIN acceptPkg \cup pkgs |->
                                   IF k \in pkgs THEN ~n.isNegated ELSE acceptPkg[k]],
                               actualRels, Tail(rels))
            ELSE ReadRelations((n.name :> ~n.isNegated) @@ acceptPkg,
                               IF n.isNegated THEN actualRels ELSE Append(actualRels, rel),
                               Tail(rels))

\* the second loop: the relations kept, and acceptPkg without their names
RECURSIVE PruneRelations(_, _, _)
PruneRelations(acceptPkg, prunedRels, actualRels) ==
    IF actualRels = <<>> THEN [acceptPkg |-> acceptPkg, prunedRels |-> prunedRels]
    ELSE LET key == Head(actualRels).RelatedPackage
         IN PruneRelations(Restrict(acceptPkg, DOMAIN acceptPkg \ {key}),
                           IF key \in DOMAIN acceptPkg /\ acceptPkg[key]
                           THEN Append(prunedRels, Head(actualRels)) ELSE prunedRels,
                           Tail(actualRels))

\* sort.Sort(byRelatedPackage(...)) on relations that carry only a name
byRelatedPackage(names) == SortedFrom(<<>>, names)

\* the relations that are rendered, in the order of their lines
compilePackageRequirements(rels, order) ==
    LET read == ReadRelations([k \in {} |-> TRUE],
                              [i \in 1..Len(rels) |-> Relation("")], rels)
        pruned == PruneRelations(read.acceptPkg, <<>>, read.actualRels)
        accepted == SelectSeq(KeysInOrder(DOMAIN pruned.acceptPkg, order),
                              LAMBDA k : pruned.acceptPkg[k])
        additionalRels == byRelatedPackage(accepted)
    IN pruned.prunedRels \o [i \in 1..Len(additionalRels) |-> Relation(additionalRels[i])]

(***************************************************************************)
(* Generator.Build                                                         *)
(***************************************************************************)
\* the timestamp of every archive member: time.Unix(0, 0)
Timestamp == "0"

TarEntry(visit) ==
    Chunk(visit.node.type,
          CASE visit.node.type = "RegularFile" -> visit.node.Content
            [] visit.node.type = "Symlink" -> visit.node.Target
            [] OTHER -> "",
          Timestamp, visit.path)

\* Directory.ToTarArchive: the headers written, in order. The walk starts at
\* ".", so the paths are <<".", s1, ..., sn>>; without leadingDot the "./" in
\* front is trimmed, and the root itself is left out on request.
ToTarArchive(d, leadingDot, skipRootDirectory, order) ==
    LET visits == WalkAll(d, <<".">>, order)
        named == [i \in 1..Len(visits) |->
                     [visits[i] EXCEPT !.path = IF ~leadingDot /\ Len(@) > 1
                                                THEN Tail(@) ELSE @]]
        kept == SelectSeq(named, LAMBDA v : ~(skipRootDirectory /\ v.path = <<".">>))
    IN [i \in 1..Len(kept) |-> TarEntry(kept[i])]

\* one line for a relation without constraint, else one line per constraint
RECURSIVE compilePackageRelations(_, _)
compilePackageRelations(relType, rels) ==
    IF rels = <<>> THEN <<>>
    ELSE LET rel == Head(rels)
         IN (IF rel.Constraints = <<>> THEN <<Chunk(relType, rel.RelatedPackage, "", <<>>)>>
             ELSE [i \in 1..Len(rel.Constraints) |->
                      Chunk(relType, rel.RelatedPackage, rel.Constraints[i].Version,
                            <<rel.Constraints[i].Relation>>)])
            \o compilePackageRelations(relType, Tail(rels))

\* the bytes of the package, and the package and the tree that Build leaves
GeneratorBuild(p, root, format, order) ==
    LET prep == PrepareBuild(p, root, order)
        archive == ToTarArchive(prep.root, format = "debian", format # "debian", order)
        q == prep.pkg
        requires == IF format = "pacman" THEN compilePackageRequirements(q.Requires, order)
                    ELSE q.Requires
    IN [bytes |-> <<Chunk("format", format, "", <<>>),
                    Chunk("package", q.Name, q.Version, <<>>),
                    Chunk("prerelease", q.PrereleaseType, "", <<>>),
                    Chunk("author", q.Author, "", <<>>)>>
                  \o compilePackageRelations("requires", requires)
                  \o <<Chunk("setup script", "", "", <<>>)>> \o Script(q.Actions, SetupAction)
                  \o <<Chunk("cleanup script", "", "", <<>>)>> \o Script(q.Actions, CleanupAction)
                  \o archive,
        pkg |-> q, root |-> prep.root]

(***************************************************************************)
(* WriteOutput                                                             *)
(***************************************************************************)
ErrDifferentContents ==
    "file already exists and has different contents; won't overwrite without --force"
ErrEOF == "EOF"

NoFile == [exists |-> FALSE, content |-> <<>>, mtime |-> 0, writer |-> 0]

\* variant: no file is taken to hold the given bytes
readerEqualTo_NeverEqual(file, str) == [equal |-> FALSE, err |-> ErrNone]

\* io.ReadFull fills a buffer of len(str) bytes: io.EOF when the file has no
\* byte for a buffer that wants one, io.ErrUnexpectedEOF when it has too few,
\* no error otherwise; what follows the buffer in the file is not read.
readerEqualTo(file, str) ==
    IF Len(str) > 0 /\ Len(file) = 0 THEN [equal |-> FALSE, err |-> ErrEOF]
    ELSE IF Len(file) < Len(str) THEN [equal |-> FALSE, err |-> ErrNone]
    ELSE [equal |-> SubSeq(file, 1, Len(str)) = str, err |-> ErrNone]

WriteFile(bytes, time) ==
    [exists |-> TRUE, content |-> bytes, mtime |-> time, writer |-> time]

\* variant: --force is not looked at
WriteOutput_IgnoreForce(bytes, pkgFile, withForce, file, time) ==
    IF pkgFile = "-"
    THEN [wasWritten |-> FALSE, err |-> ErrNone, file |-> file, stdout |-> bytes]
    ELSE IF file.exists
    THEN LET cmp == readerEqualTo(file.content, bytes)
         IN IF cmp.equal \/ cmp.err # ErrNone
            THEN [wasWritten |-> FALSE, err |-> cmp.err, file |-> file, stdout |-> <<>>]
            ELSE [wasWritten |-> TRUE, err |-> ErrDifferentContents, file |-> file,
                  stdout |-> <<>>]
    ELSE [wasWritten |-> TRUE, err |-> ErrNone, file |-> WriteFile(bytes, time),
          stdout |-> <<>>]

\* wasWritten, the error, the file afterwards and what went to stdout
WriteOutput(bytes, pkgFile, withForce, file, time) ==
    IF pkgFile = "-"
    THEN [wasWritten |-> FALSE, err |-> ErrNone, file |-> file, stdout |-> bytes]
    ELSE IF ~withForce /\ file.exists
    THEN LET cmp == readerEqualTo(file.content, bytes)
         IN IF cmp.equal \/ cmp.err # ErrNone
            THEN [wasWritten |-> FALSE, err |-> cmp.err, file |-> file, stdout |-> <<>>]
            ELSE [wasWritten |-> TRUE, err |-> ErrDifferentContents, file |-> file,
                  stdout |-> <<>>]
    ELSE [wasWritten |-> TRUE, err |-> ErrNone, file |-> WriteFile(bytes, time),
          stdout |-> <<>>]

(***************************************************************************)
(* The RPM generator: header structures, signature section, lead           *)
(***************************************************************************)
rpmInt16Type == 3
rpmInt32Type == 4
rpmStringType == 6
rpmBinType == 7
rpmStringArrayType == 8
rpmI18NStringType == 9

rpmtagHeaderSignatures == 62
rpmtagHeaderImmutable == 63
rpmtagHeaderI18NTable == 100
rpmsigtagSize == 1000
rpmsigtagPayloadSize == 1007
rpmsigtagSHA1 == 269
rpmsigtagMD5 == 1004
rpmtagName == 1000
rpmtagSummary == 1004
rpmtagArchiveSize == 1046
rpmtagFileModes == 1030
rpmtagBasenames == 1117

\* binary.Write(.., binary.BigEndian, n) for an integer of size bytes: the
\* bytes of n modulo 2^(8 * size), which is the two's complement of a negative n
RECURSIVE BigEndian(_, _)
BigEndian(n, size) ==
    IF size = 0 THEN <<>> ELSE BigEndian(n \div 256, size - 1) \o <<n % 256>>

RECURSIVE Flatten(_)
Flatten(seqs) == IF seqs = <<>> THEN <<>> ELSE Head(seqs) \o Flatten(Tail(seqs))

Zeros(n) == [i \in 1..n |-> 0]

\* the bytes "C" of the only locale of the I18N table
LocaleC == <<67>>

EmptyHeader == [Records |-> <<>>, Data |-> <<>>, hasI18NTable |-> FALSE]

rpmHeaderIndexRecord(tag, type, offset, count) ==
    [Tag |-> tag, Type |-> type, Offset |-> offset, Count |-> count]

\* binary.Write of an index record: four 32-bit fields
WriteIndexRecord(ir) ==
    BigEndian(ir.Tag, 4) \o BigEndian(ir.Type, 4) \o BigEndian(ir.Offset, 4)
    \o BigEndian(ir.Count, 4)

\* variant: the trailer points forward, by the size of the index
ToBinary_ForwardOffset(hdr, regionTag) ==
    LET actualDataSize == Len(hdr.Data)
        actualRecordCount == Len(hdr.Records)
    IN <<142, 173, 232, 1>> \o <<0, 0, 0, 0>>
       \o BigEndian(actualRecordCount + 1, 4) \o BigEndian(actualDataSize + 16, 4)
       \o WriteIndexRecord(rpmHeaderIndexRecord(regionTag, rpmBinType, actualDataSize, 16))
       \o Flatten([i \in 1..Len(hdr.Records) |-> WriteIndexRecord(hdr.Records[i])])
       \o hdr.Data
       \o WriteIndexRecord(rpmHeaderIndexRecord(regionTag, rpmBinType,
                                                (actualRecordCount + 1) * 16, 16))

\* rpmHeader.ToBinary: the header record, the index record of the region
\* tag, the index records, the data, and the data of the region tag
ToBinary(hdr, regionTag) ==
    LET actualDataSize == Len(hdr.Data)
        actualRecordCount == Len(hdr.Records)
    IN <<142, 173, 232, 1>> \o <<0, 0, 0, 0>>
       \o BigEndian(actualRecordCount + 1, 4) \o BigEndian(actualDataSize + 16, 4)
       \o WriteIndexRecord(rpmHeaderIndexRecord(regionTag, rpmBinType, actualDataSize, 16))
       \o Flatten([i \in 1..Len(hdr.Records) |-> WriteIndexRecord(hdr.Records[i])])
       \o hdr.Data
       \o WriteIndexRecord(rpmHeaderIndexRecord(regionTag, rpmBinType,
                                                (0 - (actualRecordCount + 1)) * 16, 16))

AddBinaryValue(hdr, tag, data) ==
    [hdr EXCEPT !.Records = Append(@, rpmHeaderIndexRecord(tag, rpmBinType,
                                                           Len(hdr.Data), Len(data))),
                !.Data = @ \o data]

AddInt16Value(hdr, tag, data) ==
    IF data = <<>> THEN hdr
    ELSE LET aligned == IF Len(hdr.Data) % 2 # 0 THEN Append(hdr.Data, 0) ELSE hdr.Data
         IN [hdr EXCEPT !.Records = Append(@, rpmHeaderIndexRecord(tag, rpmInt16Type,
                                                                   Len(aligned), Len(data))),
                        !.Data = aligned
                                 \o Flatten([i \in 1..Len(data) |-> BigEndian(data[i], 2)])]

AddInt32Value(hdr, tag, data) ==
    IF data = <<>> THEN hdr
    ELSE LET aligned == hdr.Data \o Zeros((4 - (Len(hdr.Data) % 4)) % 4)
         IN [hdr EXCEPT !.Records = Append(@, rpmHeaderIndexRecord(tag, rpmInt32Type,
                                                                   Len(aligned), Len(data))),
                        !.Data = aligned
                                 \o Flatten([i \in 1..Len(data) |-> BigEndian(data[i], 4)])]

AddStringArrayValue(hdr, tag, data) ==
    IF data = <<>> THEN hdr
    ELSE [hdr EXCEPT !.Records = Append(@, rpmHeaderIndexRecord(tag, rpmStringArrayType,
                                                                Len(hdr.Data), Len(data))),
                     !.Data = @ \o Flatten([i \in 1..Len(data) |-> Append(data[i], 0)])]

AddStringValue(hdr, tag, data, i18n) ==
    LET h == IF i18n /\ ~hdr.hasI18NTable
             THEN [AddStringArrayValue(hdr, rpmtagHeaderI18NTable, <<LocaleC>>)
                       EXCEPT !.hasI18NTable = TRUE]
             ELSE hdr
    IN [h EXCEPT !.Records = Append(@, rpmHeaderIndexRecord(
                                           tag,
                                           IF i18n THEN rpmI18NStringType ELSE rpmStringType,
                                           Len(h.Data), 1)),
                 !.Data = (@ \o data) \o <<0>>]

\* crypto/sha1 and crypto/md5 are not computed: in their place stands a
\* checksum of the bytes written and of their number, 20 and 16 bytes long
RECURSIVE WeightedSum(_, _, _)
WeightedSum(bytes, from, to) ==
    IF from > to THEN 0
    ELSE IF from = to THEN (from * bytes[from]) % 65521
    ELSE LET half == (from + to) \div 2
         IN (WeightedSum(bytes, from, half) + WeightedSum(bytes, half + 1, to)) % 65521
Digest(bytes, size, salt) ==
    LET sum == WeightedSum(bytes, 1, Len(bytes)) + Len(bytes)
    IN [k \in 1..size |-> (sum * k + (sum \div 256) + salt) % 256]
sha1sum(bytes) == Digest(bytes, 20, 1)
md5sum(bytes) == Digest(bytes, 16, 5)

\* hex.EncodeToString: two lower-case hexadecimal digits for every byte
HexDigit(n) == IF n < 10 THEN 48 + n ELSE 87 + n
EncodeToString(bytes) ==
    Flatten([i \in 1..Len(bytes) |-> <<HexDigit(bytes[i] \div 16), HexDigit(bytes[i] % 16)>>])

\* variant: the SHA-1 digest is taken of header and payload
makeSignatureSection_DigestOfAll(headerSection, payload) ==
    LET size == AddInt32Value(EmptyHeader, rpmsigtagSize,
                              <<Len(headerSection) + payload.CompressedSize>>)
        payloadSize == AddInt32Value(size, rpmsigtagPayloadSize, <<payload.UncompressedSize>>)
        sha1 == AddStringValue(payloadSize, rpmsigtagSHA1,
                               EncodeToString(sha1sum(headerSection \o payload.Binary)), FALSE)
        md5 == AddBinaryValue(sha1, rpmsigtagMD5, md5sum(headerSection \o payload.Binary))
    IN ToBinary(md5, rpmtagHeaderSignatures)

makeSignatureSection(headerSection, payload) ==
    LET size == AddInt32Value(EmptyHeader, rpmsigtagSize,
                              <<Len(headerSection) + payload.CompressedSize>>)
        payloadSize == AddInt32Value(size, rpmsigtagPayloadSize, <<payload.UncompressedSize>>)
        sha1 == AddStringValue(payloadSize, rpmsigtagSHA1,
                               EncodeToString(sha1sum(headerSection)), FALSE)
        md5 == AddBinaryValue(sha1, rpmsigtagMD5, md5sum(headerSection \o payload.Binary))
    IN ToBinary(md5, rpmtagHeaderSignatures)

\* newLead(pkg).ToBinary() for the bytes of name-version-release and the
\* architecture id of the package
newLead(nvr, archID) ==
    <<237, 171, 238, 219>> \o <<3, 0>> \o BigEndian(0, 2) \o BigEndian(archID, 2)
    \o [idx \in 1..66 |-> IF idx <= 65 /\ idx <= Len(nvr) THEN nvr[idx] ELSE 0]
    \o BigEndian(1, 2) \o BigEndian(5, 2) \o Zeros(16)

\* variant: the second part follows the first at once
appendAlignedTo8Byte_Unaligned(a, b) == a \o b

appendAlignedTo8Byte(a, b) == (a \o Zeros((8 - (Len(a) % 8)) % 8)) \o b

\* Generator.Build: the sections in the order of the file
RpmBuild(h, payload, nvr, archID) ==
    LET headerSection == ToBinary(h, rpmtagHeaderImmutable)
        signatureSection == makeSignatureSection(headerSection, payload)
        lead == newLead(nvr, archID)
        combined1 == appendAlignedTo8Byte(lead, signatureSection)
        combined2 == appendAlignedTo8Byte(combined1, headerSection)
    IN combined2 \o payload.Binary

(***************************************************************************)
(* addFileInformationTags (rpm/metadata.go) and MakePayload                *)
(***************************************************************************)
\* len() of the strings that the trees of the model hold
StrLen(str) ==
    CASE str = "" -> 0
      [] str \in {"."} -> 1
      [] str \in {"..", "x\n"} -> 2
      [] str \in {"bar", "etc", "foo", "pkg", "usr"} -> 3
      [] str \in {"holo", "/etc"} -> 4
      [] str \in {"Upper", "files", "share", "users"} -> 5
      [] str = "x.toml" -> 6
      [] OTHER -> 10
\* len() of the absolute path that Walk hands to its callback
RECURSIVE PathLen(_)
PathLen(path) ==
    IF path = <<>> THEN 1
    ELSE IF Len(path) = 1 THEN 1 + StrLen(path[1])
    ELSE PathLen(SubSeq(path, 1, Len(path) - 1)) + 1 + StrLen(path[Len(path)])

\* filepath.Base and filepath.Dir of such a path; Dir cleans what it returns
Base(path) == IF path = <<>> THEN "/" ELSE path[Len(path)]
Dir(path) == IF path = <<>> THEN <<>> ELSE CleanSegs(<<>>, SubSeq(path, 1, Len(path) - 1))

\* Node.FileModeForArchive(true)
FileModeForArchive(node) ==
    CASE node.type = "Directory" -> 16384 + (node.Metadata.Mode % 4096)
      [] node.type = "RegularFile" -> 32768 + (node.Metadata.Mode % 4096)
      [] node.type = "Symlink" -> 41471
\* NodeMetadata.UID and GID
UID(meta) == IF meta.Owner.nil THEN 0 ELSE meta.Owner.Int
GID(meta) == IF meta.Group.nil THEN 0 ELSE meta.Group.Int
\* the conversion int16(x) of a uint32
Int16(x) == ((x + 32768) % 65536) - 32768
\* the text of .PKGINFO: its first two lines stand for all of it
PkgInfoText == "# Generated by holo-build\npkgname = pkg\n"
\* RegularFile.MD5Digest for the contents of the model
MD5Digest(content) ==
    CASE content = "x\n" -> "401b30e3b8b5d629635a5c613cdb7919"
      [] content = "" -> "d41d8cd98f00b204e9800998ecf8427e"
      [] content = PkgInfoText -> "a163a6a5508ff4af8eac88a8ad7322d6"

idToString(id) == IF id = 0 THEN "root" ELSE ToString(id)

findOrAppend(list, value) ==
    IF \E idx \in 1..Len(list) : list[idx] = value
    THEN [newList |-> list,
          position |-> (CHOOSE idx \in 1..Len(list) :
                           /\ list[idx] = value
                           /\ \A j \in 1..(idx - 1) : list[j] # value) - 1]
    ELSE [newList |-> Append(list, value), position |-> Len(list)]

rpmfileNoReplace == 16

\* the arrays of addFileInformationTags and its counter, before the walk
NoFileTags ==
    [sizes |-> <<>>, modes |-> <<>>, rdevs |-> <<>>, mtimes |-> <<>>, md5s |-> <<>>,
     linktos |-> <<>>, flags |-> <<>>, ownerNames |-> <<>>, groupNames |-> <<>>,
     devices |-> <<>>, inodes |-> <<>>, langs |-> <<>>, dirIndexes |-> <<>>,
     basenames |-> <<>>, dirnames |-> <<>>, inodeNumber |-> 0]

\* variant: only a symlink gets an element of linktos, only a file one of md5s
TypeDependentMetadata_Sparse(node) ==
    CASE node.type = "Directory" ->
            [sizes |-> <<4096>>, md5s |-> <<>>, linktos |-> <<>>, flags |-> <<0>>,
             ownerNames |-> <<idToString(UID(node.Metadata))>>,
             groupNames |-> <<idToString(GID(node.Metadata))>>]
      [] node.type = "RegularFile" ->
            [sizes |-> <<StrLen(node.Content)>>, md5s |-> <<MD5Digest(node.Content)>>,
             linktos |-> <<>>, flags |-> <<rpmfileNoReplace>>,
             ownerNames |-> <<idToString(UID(node.Metadata))>>,
             groupNames |-> <<idToString(GID(node.Metadata))>>]
      [] node.type = "Symlink" ->
            [sizes |-> <<StrLen(node.Target)>>, md5s |-> <<>>, linktos |-> <<node.Target>>,
             flags |-> <<0>>, ownerNames |-> <<"root">>, groupNames |-> <<"root">>]

\* the switch over the type of the node: what each case appends
TypeDependentMetadata(node) ==
    CASE node.type = "Directory" ->
            [sizes |-> <<4096>>, md5s |-> <<"">>, linktos |-> <<"">>, flags |-> <<0>>,
             ownerNames |-> <<idToString(UID(node.Metadata))>>,
             groupNames |-> <<idToString(GID(node.Metadata))>>]
      [] node.type = "RegularFile" ->
            [sizes |-> <<StrLen(node.Content)>>, md5s |-> <<MD5Digest(node.Content)>>,
             linktos |-> <<"">>, flags |-> <<rpmfileNoReplace>>,
             ownerNames |-> <<idToString(UID(node.Metadata))>>,
             groupNames |-> <<idToString(GID(node.Metadata))>>]
      [] node.type = "Symlink" ->
            [sizes |-> <<StrLen(node.Target)>>, md5s |-> <<"">>, linktos |-> <<node.Target>>,
             flags |-> <<0>>, ownerNames |-> <<"root">>, groupNames |-> <<"root">>]

\* the callback of addFileInformationTags, called for one node of the walk
FileInformation(t, path, node) ==
    IF IsDir(node) /\ node.Implicit THEN t
    ELSE LET found == findOrAppend(t.dirnames, Dir(path))
             typed == TypeDependentMetadata(node)
         IN [inodeNumber |-> t.inodeNumber + 1,
             inodes |-> Append(t.inodes, t.inodeNumber + 1),
             langs |-> Append(t.langs, ""),
             devices |-> Append(t.devices, 1),
             rdevs |-> Append(t.rdevs, 0),
             basenames |-> Append(t.basenames, Base(path)),
             dirnames |-> found.newList,
             dirIndexes |-> Append(t.dirIndexes, found.position),
             modes |-> Append(t.modes, Int16(FileModeForArchive(node))),
             mtimes |-> Append(t.mtimes, 0),
             sizes |-> t.sizes \o typed.sizes,
             md5s |-> t.md5s \o typed.md5s,
             linktos |-> t.linktos \o typed.linktos,
             flags |-> t.flags \o typed.flags,
             ownerNames |-> t.ownerNames \o typed.ownerNames,
             groupNames |-> t.groupNames \o typed.groupNames]

RECURSIVE FileInformationOf(_, _)
FileInformationOf(t, visits) ==
    IF visits = <<>> THEN t
    ELSE FileInformationOf(FileInformation(t, Head(visits).path, Head(visits).node),
                           Tail(visits))

\* the arrays that addFileInformationTags hands to the header, each under
\* the name of its variable; a dirname is the list of its segments
addFileInformationTags(root, order) == FileInformationOf(NoFileTags, WalkAll(root, <<>>, order))

\* cpioFormatInt: eight hexadecimal digits
cpioFormatInt(n) == [i \in 1..8 |-> HexDigit((n \div (16 ^ (8 - i))) % 16)]

\* one record of the archive: the header fields that vary, the name ("."
\* and the path, NUL-terminated) and the data
CpioRecord(inodeNumber, path, node) ==
    LET data == CASE node.type = "RegularFile" -> node.Content
                  [] node.type = "Symlink" -> node.Target
                  [] OTHER -> ""
    IN [InodeNumber |-> cpioFormatInt(inodeNumber),
        Mode |-> cpioFormatInt(FileModeForArchive(node)),
        UID |-> cpioFormatInt(IF node.type = "Symlink" THEN 0 ELSE UID(node.Metadata)),
        GID |-> cpioFormatInt(IF node.type = "Symlink" THEN 0 ELSE GID(node.Metadata)),
        NumberOfLinks |-> cpioFormatInt(1),
        ModificationTime |-> cpioFormatInt(0),
        FileSize |-> cpioFormatInt(StrLen(data)),
        NameSize |-> cpioFormatInt(1 + PathLen(path) + 1),
        name |-> path,
        data |-> data]

\* variant: the implicit directories get their records, too
RECURSIVE CpioRecords_All(_, _)
CpioRecords_All(inodeNumber, visits) ==
    IF visits = <<>> THEN <<>>
    ELSE <<CpioRecord(inodeNumber + 1, Head(visits).path, Head(visits).node)>>
         \o CpioRecords_All(inodeNumber + 1, Tail(visits))

RECURSIVE CpioRecords(_, _)
CpioRecords(inodeNumber, visits) ==
    IF visits = <<>> THEN <<>>
    ELSE IF IsDir(Head(visits).node) /\ Head(visits).node.Implicit
         THEN CpioRecords(inodeNumber, Tail(visits))
         ELSE <<CpioRecord(inodeNumber + 1, Head(visits).path, Head(visits).node)>>
              \o CpioRecords(inodeNumber + 1, Tail(visits))

\* the records of the archive before compression, without the trailer
MakePayload(root, order) == CpioRecords(0, WalkAll(root, <<>>, order))

(***************************************************************************)
(* makeMTREE and mtreeEscapeString (pacman/mtree.go), Build of pacman      *)
(***************************************************************************)
\* []byte(str) for the strings of the model
StrBytes(str) ==
    CASE str = "" -> <<>>
      [] str = "." -> <<46>>
      [] str = " " -> <<32>>
      [] str = ".." -> <<46, 46>>
      [] str = ".INSTALL" -> <<46, 73, 78, 83, 84, 65, 76, 76>>
      [] str = ".MTREE" -> <<46, 77, 84, 82, 69, 69>>
      [] str = ".PKGINFO" -> <<46, 80, 75, 71, 73, 78, 70, 79>>
      [] str = "a b" -> <<97, 32, 98>>
      [] str = "a\\b" -> <<97, 92, 98>>
      [] str = "bar" -> <<98, 97, 114>>
      [] str = "etc" -> <<101, 116, 99>>
      [] str = "foo" -> <<102, 111, 111>>
      [] str = "foo.conf" -> <<102, 111, 111, 46, 99, 111, 110, 102>>
      [] str = "/etc" -> <<47, 101, 116, 99>>
      [] str = "/a b" -> <<47, 97, 32, 98>>
      [] str = "x\n" -> <<120, 10>>
      [] str = "# Generated by holo-build\npkgname = pkg\n" -> <<35, 32, 71, 101, 110, 101, 114, 97, 116, 101, 100, 32, 98, 121, 32, 104, 111, 108, 111, 45, 98, 117, 105, 108, 100, 10, 112, 107, 103, 110, 97, 109, 101, 32, 61, 32, 112, 107, 103, 10>>
      [] str = "401b30e3b8b5d629635a5c613cdb7919" -> <<52, 48, 49, 98, 51, 48, 101, 51, 98, 56, 98, 53, 100, 54, 50, 57, 54, 51, 53, 97, 53, 99, 54, 49, 51, 99, 100, 98, 55, 57, 49, 57>>
      [] str = "73cb3858a687a8494ca3323053016282f3dad39d42cf62ca4e79dda2aac7d9ac" -> <<55, 51, 99, 98, 51, 56, 53, 56, 97, 54, 56, 55, 97, 56, 52, 57, 52, 99, 97, 51, 51, 50, 51, 48, 53, 51, 48, 49, 54, 50, 56, 50, 102, 51, 100, 97, 100, 51, 57, 100, 52, 50, 99, 102, 54, 50, 99, 97, 52, 101, 55, 57, 100, 100, 97, 50, 97, 97, 99, 55, 100, 57, 97, 99>>
      [] str = "8057760f1d94da22829cf1dca8fb291c6bc391d69fd8f8ec6ead49f2ec8b8700" -> <<56, 48, 53, 55, 55, 54, 48, 102, 49, 100, 57, 52, 100, 97, 50, 50, 56, 50, 57, 99, 102, 49, 100, 99, 97, 56, 102, 98, 50, 57, 49, 99, 54, 98, 99, 51, 57, 49, 100, 54, 57, 102, 100, 56, 102, 56, 101, 99, 54, 101, 97, 100, 52, 57, 102, 50, 101, 99, 56, 98, 56, 55, 48, 48>>
      [] str = "a163a6a5508ff4af8eac88a8ad7322d6" -> <<97, 49, 54, 51, 97, 54, 97, 53, 53, 48, 56, 102, 102, 52, 97, 102, 56, 101, 97, 99, 56, 56, 97, 56, 97, 100, 55, 51, 50, 50, 100, 54>>
      [] str = "d41d8cd98f00b204e9800998ecf8427e" -> <<100, 52, 49, 100, 56, 99, 100, 57, 56, 102, 48, 48, 98, 50, 48, 52, 101, 57, 56, 48, 48, 57, 57, 56, 101, 99, 102, 56, 52, 50, 55, 101>>
      [] str = "e3b0c44298fc1c149afbf4c8996fb92427ae41e4649b934ca495991b7852b855" -> <<101, 51, 98, 48, 99, 52, 52, 50, 57, 56, 102, 99, 49, 99, 49, 52, 57, 97, 102, 98, 102, 52, 99, 56, 57, 57, 54, 102, 98, 57, 50, 52, 50, 55, 97, 101, 52, 49, 101, 52, 54, 52, 57, 98, 57, 51, 52, 99, 97, 52, 57, 53, 57, 57, 49, 98, 55, 56, 53, 50, 98, 56, 53, 53>>

\* RegularFile.SHA256Digest for the contents of the model
SHA256Digest(content) ==
    CASE content = "x\n" -> "73cb3858a687a8494ca3323053016282f3dad39d42cf62ca4e79dda2aac7d9ac"
      [] content = "" -> "e3b0c44298fc1c149afbf4c8996fb92427ae41e4649b934ca495991b7852b855"
      [] content = PkgInfoText -> "8057760f1d94da22829cf1dca8fb291c6bc391d69fd8f8ec6ead49f2ec8b8700"

\* fmt.Sprintf("%d", n) and fmt.Sprintf("%o", n)
RECURSIVE Decimal(_)
Decimal(n) == IF n < 10 THEN <<48 + n>> ELSE Append(Decimal(n \div 10), 48 + (n % 10))
RECURSIVE Octal(_)
Octal(n) == IF n < 8 THEN <<48 + n>> ELSE Append(Octal(n \div 8), 48 + (n % 8))

\* fmt.Sprintf("\\%03o", byt)
EscapeSequence(byt) == <<92, 48 + (byt \div 64), 48 + ((byt \div 8) % 8), 48 + (byt % 8)>>

\* variant: a backslash is escaped like a byte that is not printable
mtreeEscapeString_Backslash(in) ==
    Flatten([i \in 1..Len(in) |->
                IF in[i] > 32 /\ in[i] <= 126 /\ in[i] # 92 THEN <<in[i]>>
                ELSE EscapeSequence(in[i])])

mtreeEscapeString(in) ==
    Flatten([i \in 1..Len(in) |->
                IF in[i] > 32 /\ in[i] <= 126 THEN <<in[i]>> ELSE EscapeSequence(in[i])])

\* the absolute path that Walk hands to the callback, as bytes
PathBytes(path) ==
    IF path = <<>> THEN <<47>>
    ELSE Flatten([i \in 1..Len(path) |-> <<47>> \o StrBytes(path[i])])

\* " uid=%d", " gid=%d" and " mode=%o" where they differ from the defaults
MtreeMetadata(meta) ==
    (IF UID(meta) # 0 THEN <<32, 117, 105, 100, 61>> \o Decimal(UID(meta)) ELSE <<>>)
    \o (IF GID(meta) # 0 THEN <<32, 103, 105, 100, 61>> \o Decimal(GID(meta)) ELSE <<>>)
    \o (IF meta.Mode # 420 THEN <<32, 109, 111, 100, 101, 61>> \o Octal(meta.Mode) ELSE <<>>)

\* the line of one node: "." + path, escaped, and the attributes
MtreeLine(path, node) ==
    mtreeEscapeString(<<46>> \o PathBytes(path))
    \o CASE node.type = "Directory" ->
               \* " type=dir"
               <<32, 116, 121, 112, 101, 61, 100, 105, 114>> \o MtreeMetadata(node.Metadata)
          [] node.type = "RegularFile" ->
               \* " size=%d md5digest=%s sha256digest=%s"
               MtreeMetadata(node.Metadata)
               \o <<32, 115, 105, 122, 101, 61>> \o Decimal(Len(StrBytes(node.Content)))
               \o <<32, 109, 100, 53, 100, 105, 103, 101, 115, 116, 61>>
               \o StrBytes(MD5Digest(node.Content))
               \o <<32, 115, 104, 97, 50, 53, 54, 100, 105, 103, 101, 115, 116, 61>>
               \o StrBytes(SHA256Digest(node.Content))
          [] node.type = "Symlink" ->
               \* " type=link mode=777" and " link="
               <<32, 116, 121, 112, 101, 61, 108, 105, 110, 107, 32, 109, 111, 100, 101, 61, 55, 55, 55>>
               \o <<32, 108, 105, 110, 107, 61>> \o mtreeEscapeString(StrBytes(node.Target))

\* "#mtree" and "/set type=file uid=0 gid=0 mode=644 time=0.0"
MtreeHeader ==
    <<<<35, 109, 116, 114, 101, 101>>,
      <<47, 115, 101, 116, 32, 116, 121, 112, 101, 61, 102, 105, 108, 101, 32, 117, 105, 100, 61, 48, 32, 103, 105, 100, 61, 48, 32, 109, 111, 100, 101, 61, 54, 52, 52, 32, 116, 105, 109, 101, 61, 48, 46, 48>>>>

RECURSIVE MtreeLines(_)
MtreeLines(visits) ==
    IF visits = <<>> THEN <<>>
    ELSE (IF Head(visits).path = <<>> THEN <<>>
          ELSE <<MtreeLine(Head(visits).path, Head(visits).node)>>)
         \o MtreeLines(Tail(visits))

\* variant: the root directory gets a line, too
makeMTREE_WithRoot(root, order) ==
    MtreeHeader \o <<MtreeLine(<<>>, root)>> \o MtreeLines(WalkAll(root, <<>>, order))

\* the lines of .MTREE; they are joined by "\n" and compressed by gzip,
\* which is left out here
makeMTREE(root, order) == MtreeHeader \o MtreeLines(WalkAll(root, <<>>, order))

\* Generator.Build of the pacman generator puts the three files into the
\* tree, one after the other, before the tree is archived
PacmanFile(content) ==
    [type |-> "RegularFile", Content |-> content,
     Metadata |-> [Mode |-> 420, Owner |-> NilRef, Group |-> NilRef]]
writePKGINFO(p, root) ==
    [root EXCEPT !.Entries = (".PKGINFO" :> PacmanFile(PkgInfoText)) @@ @]
writeINSTALL(p, root) ==
    IF Script(p.Actions, SetupAction) = <<>> /\ Script(p.Actions, CleanupAction) = <<>>
    THEN root
    ELSE [root EXCEPT !.Entries = (".INSTALL" :> PacmanFile("")) @@ @]
writeMTREE(root, order) ==
    [root EXCEPT !.Entries = (".MTREE" :> PacmanFile(makeMTREE(root, order))) @@ @]

(***************************************************************************)
(* addDependencyInformationTags (rpm/metadata.go)                          *)
(***************************************************************************)
rpmtagProvideName == 1047
rpmtagRequireName == 1049
rpmtagConflictName == 1054
rpmtagObsoleteName == 1090
rpmsenseAny == 0
rpmsenseLess == 2
rpmsenseGreater == 4
rpmsenseEqual == 8
rpmsenseRpmlib == 16777216

rpmlibPseudoDependencies ==
    <<[Name |-> "VersionedDependencies", Version |-> "3.0.3-1"],
      [Name |-> "CompressedFileNames", Version |-> "3.0.4-1"],
      [Name |-> "PayloadIsLzma", Version |-> "4.4.6-1"],
      [Name |-> "PayloadFilesHavePrefix", Version |-> "4.0-1"]>>

\* the flags are sums of distinct bits, which is what | gives
flagsForConstraintRelation(relation) ==
    CASE relation = "<" -> rpmsenseLess
      [] relation = "<=" -> rpmsenseLess + rpmsenseEqual
      [] relation = "=" -> rpmsenseEqual
      [] relation = ">=" -> rpmsenseGreater + rpmsenseEqual
      [] relation = ">" -> rpmsenseGreater
      [] relation = "rpmlib" -> rpmsenseRpmlib + rpmsenseLess + rpmsenseEqual
      [] OTHER -> 0

\* "rpmlib(" + dep.Name + ")"
RpmlibName(name) ==
    CASE name = "VersionedDependencies" -> "rpmlib(VersionedDependencies)"
      [] name = "CompressedFileNames" -> "rpmlib(CompressedFileNames)"
      [] name = "PayloadIsLzma" -> "rpmlib(PayloadIsLzma)"
      [] name = "PayloadFilesHavePrefix" -> "rpmlib(PayloadFilesHavePrefix)"
\* the relations that stand for rpmlibPseudoDependencies
PseudoRelations ==
    [i \in 1..Len(rpmlibPseudoDependencies) |->
        [RelatedPackage |-> RpmlibName(rpmlibPseudoDependencies[i].Name),
         Constraints |-> <<VersionConstraint("rpmlib", rpmlibPseudoDependencies[i].Version)>>]]

\* the second loop of serializeRelations: one element for a relation
\* without constraints, one for every constraint otherwise
RECURSIVE SerializedRelations(_)
SerializedRelations(rels) ==
    IF rels = <<>> THEN [names |-> <<>>, flags |-> <<>>, versions |-> <<>>]
    ELSE LET rel == Head(rels)
             rest == SerializedRelations(Tail(rels))
             n == Len(rel.Constraints)
         IN IF n = 0
            THEN [names |-> <<rel.RelatedPackage>> \o rest.names,
                  flags |-> <<rpmsenseAny>> \o rest.flags,
                  versions |-> <<"">> \o rest.versions]
            ELSE [names |-> [i \in 1..n |-> rel.RelatedPackage] \o rest.names,
                  flags |-> [i \in 1..n |->
                               flagsForConstraintRelation(rel.Constraints[i].Relation)]
                            \o rest.flags,
                  versions |-> [i \in 1..n |-> rel.Constraints[i].Version] \o rest.versions]

\* variant: the pseudo-dependencies go in front, and into every list
serializeRelations_PseudoFirst(rels, namesTag) == SerializedRelations(PseudoRelations \o rels)

\* the three arrays that serializeRelations hands to the header
serializeRelations(rels, namesTag) ==
    SerializedRelations(IF namesTag = rpmtagRequireName THEN rels \o PseudoRelations
                        ELSE rels)

NoDeps == [phase |-> "none"]
addDependencyInformationTags(p) ==
    [phase |-> "added",
     requires |-> serializeRelations(p.Requires, rpmtagRequireName),
     provides |-> serializeRelations(p.Provides, rpmtagProvideName),
     conflicts |-> serializeRelations(p.Conflicts, rpmtagConflictName),
     obsoletes |-> serializeRelations(p.Replaces, rpmtagObsoleteName)]

(***************************************************************************)
(* main: one invocation after the other on the same input                  *)
(***************************************************************************)
Jane == "Jane Doe <jane@example.org>"
HoloFile1 ==
    [path |-> AbsPath(<<"usr", "share", "holo", "files", "x.toml">>), content |-> "x\n",
     owner |-> NilRef]
HoloFile2 ==
    [path |-> AbsPath(<<"usr", "share", "holo", "users", "x.toml">>), content |-> "x\n",
     owner |-> NilRef]
PlainFile == [path |-> AbsPath(<<"etc", "foo">>), content |-> "x\n", owner |-> NilRef]
\* a file section with owner = "staff", and an action section
OwnedHoloFile == [HoloFile1 EXCEPT !.owner = NameRef("staff")]
OwnedPlainFile == [PlainFile EXCEPT !.owner = NameRef("staff")]
UserAction == [On |-> "setup", Script |-> "echo"]
CleanupUserAction == [On |-> "cleanup", Script |-> "true"]

DefaultInput ==
    [toml |-> TRUE, Name |-> "pkg", Version |-> "1.0", PrereleaseType |-> "",
     PrereleaseNo |-> 0, Author |-> Jane, Requires |-> <<>>, Action |-> <<>>,
     File |-> <<>>]

\* what the [package] section gives for prereleaseType and prereleaseNo
Prereleases == {<<"", 0>>, <<"", 1>>, <<"gamma", 1>>, <<"beta", 0>>, <<"beta", 1>>}

RequiresLists ==
    {<<>>, <<"holo-files">>, <<"Upper">>, <<"a b">>, <<"group:foo-bar">>,
     <<"group:foo-bar", "except:bar">>}

Inputs ==
    {[DefaultInput EXCEPT !.toml = FALSE]}
    \cup { [toml |-> TRUE, Name |-> n, Version |-> v, PrereleaseType |-> pre[1],
            PrereleaseNo |-> pre[2], Author |-> a, Requires |-> r, Action |-> <<>>,
            File |-> f] :
           n \in {"", "pkg", "Pkg", "a/b"}, v \in {"", "1.0"}, pre \in Prereleases,
           a \in {"", Jane}, r \in RequiresLists,
           f \in {<<>>, <<HoloFile1>>, <<PlainFile, PlainFile>>, <<HoloFile2, HoloFile1>>} }
    \cup { [DefaultInput EXCEPT !.Requires = r, !.Action = a, !.File = f] :
           r \in {<<>>, <<"holo-files>=1.0">>, <<"holo-files", "group:foo-">>,
                  <<"holo-files>=1.0", "group:foo-bar", "except:bar">>,
                  <<"except:bar", "group:foo-bar">>},
           a \in {<<>>, <<UserAction>>, <<CleanupUserAction, UserAction>>},
           f \in {<<HoloFile2, HoloFile1>>, <<OwnedHoloFile, HoloFile2>>,
                  <<OwnedPlainFile>>} }

Options ==
    [format : {"debian", "pacman", "rpm"}, withForce : BOOLEAN,
     outputFileName : {"-", "package"}, filenameOnly : BOOLEAN]

\* what does not depend on the input: whether the input file can be opened,
\* and whether the generator can assemble the archive
Environments ==
    {[inputReadable |-> TRUE, buildable |-> TRUE],
     [inputReadable |-> TRUE, buildable |-> FALSE],
     [inputReadable |-> FALSE, buildable |-> TRUE]}

\* the payload that makePayload returns: the compressed bytes and the sizes
Payload(binary, uncompressedSize) ==
    [Binary |-> binary, CompressedSize |-> Len(binary), UncompressedSize |-> uncompressedSize]
Payloads == {Payload(<<93, 0, 0>>, 124), Payload(<<93, 0, 0, 128, 255>>, 636)}

\* name-version-release: "pkg-1.0-1", and a name of 70 bytes "a"
NameVersionReleases == {<<112, 107, 103, 45, 49, 46, 48, 45, 49>>, [i \in 1..70 |-> 97]}

\* the values of archIDMap
ArchIDs == {0, 12}

IdleRpm ==
    [phase |-> "idle", h |-> EmptyHeader, payload |-> Payload(<<>>, 0), nvr |-> <<>>,
     archID |-> 0, file |-> <<>>, tags |-> NoFileTags, cpio |-> <<>>, deps |-> NoDeps]

\* what is at the place of the output file before the first run: nothing,
\* or, for the definitions without author and files, a file of somebody else
ForeignFile == [exists |-> TRUE, content |-> <<Chunk("00", "", "", <<>>)>>, mtime |-> 0,
                writer |-> 0]
InitialFiles(in) ==
    IF in.toml /\ in.Author = "" /\ in.File = <<>> /\ in.Version = "1.0"
       /\ in.PrereleaseType = "" /\ in.PrereleaseNo = 0
    THEN {NoFile, ForeignFile} ELSE {NoFile}

NoNodes == [all |-> {}, left |-> {}]
NoText == [text |-> <<>>, escaped |-> <<>>, done |-> FALSE]

IdleOp ==
    [op |-> "none", path |-> AbsPath(<<>>), entry |-> NoEntry, err |-> ErrNone,
     repeat |-> "no"]
FreshObs(first, file) ==
    [phases |-> <<>>, validated |-> <<>>, wasWritten |-> FALSE, writeErr |-> ErrNone,
     firstBytes |-> first, start |-> file]

Phase(name) == obs' = [obs EXCEPT !.phases = Append(@, name)]

InitMain ==
    /\ input \in Inputs
    /\ env \in Environments
    /\ opts \in Options
    /\ ~env.inputReadable => input = DefaultInput
    /\ pc = "start"
    /\ pkg = NilPackage
    /\ FSRoot = ImplicitRoot
    /\ errs = <<>>
    /\ shown = <<>>
    /\ stdout = <<>>
    /\ exitCode = 0
    /\ disk \in InitialFiles(input)
    /\ pkgBytes = <<>>
    /\ now = 1
    /\ obs = FreshObs(<<>>, disk)
    /\ rpm = IdleRpm
    /\ nodes = NoNodes
    /\ mtree = NoText
    /\ lastOp = IdleOp
    /\ nIns = 0

Exit(code) == pc' = "exited" /\ exitCode' = code

OpenInputFails ==
    /\ pc = "start"
    /\ ~env.inputReadable
    /\ shown' = <<ErrOpenInput>>
    /\ Exit(1)
    /\ Phase("open failed")
    /\ UNCHANGED <<input, env, opts, pkg, FSRoot, errs, stdout, disk, pkgBytes, now,
                   lastOp, nIns, rpm, nodes, mtree>>

Parse ==
    /\ pc = "start"
    /\ env.inputReadable
    /\ LET r == ParsePackageDefinition(input)
       IN pkg' = r.pkg /\ FSRoot' = r.root /\ errs' = r.errs
    /\ pc' = "parsed"
    /\ Phase("parse")
    /\ UNCHANGED <<input, env, opts, shown, stdout, exitCode, disk, pkgBytes, now,
                   lastOp, nIns, rpm, nodes, mtree>>

Validate ==
    /\ pc = "parsed"
    /\ IF pkg.nil
       THEN UNCHANGED <<errs, obs>>
       ELSE /\ errs' = errs \o GeneratorValidate(pkg, opts.format)
            /\ obs' = [obs EXCEPT !.phases = Append(@, "validate"),
                                  !.validated = pkg.Requires]
    /\ pc' = "validated"
    /\ UNCHANGED <<input, env, opts, pkg, FSRoot, shown, stdout, exitCode, disk,
                   pkgBytes, now, lastOp, nIns, rpm, nodes, mtree>>

ShowErrors ==
    /\ pc = "validated"
    /\ errs # <<>>
    /\ shown' = errs
    /\ Exit(1)
    /\ UNCHANGED <<input, env, opts, pkg, FSRoot, errs, stdout, disk, pkgBytes, now,
                   obs, lastOp, nIns, rpm, nodes, mtree>>

PrintFileName ==
    /\ pc = "validated"
    /\ errs = <<>>
    /\ opts.filenameOnly
    /\ stdout' = <<Chunk("file name", pkg.Name, pkg.Version, <<>>)>>
    /\ Exit(0)
    /\ UNCHANGED <<input, env, opts, pkg, FSRoot, errs, shown, disk, pkgBytes, now,
                   obs, lastOp, nIns, rpm, nodes, mtree>>

Integrate ==
    /\ pc = "validated"
    /\ errs = <<>>
    /\ ~opts.filenameOnly
    /\ \E order \in MapOrders : pkg' = DoMagicalHoloIntegration(pkg, FSRoot, order)
    /\ pc' = "integrated"
    /\ Phase("holo")
    /\ UNCHANGED <<input, env, opts, FSRoot, errs, shown, stdout, exitCode, disk,
                   pkgBytes, now, lastOp, nIns, rpm, nodes, mtree>>

BuildPackage ==
    /\ pc = "integrated"
    /\ env.buildable
    /\ \E order \in MapOrders :
          LET b == GeneratorBuild(pkg, FSRoot, opts.format, order)
          IN /\ pkgBytes' = b.bytes /\ pkg' = b.pkg /\ FSRoot' = b.root
             /\ obs' = [obs EXCEPT !.phases = Append(@, "build"),
                                   !.firstBytes = IF @ = <<>> THEN b.bytes ELSE @]
    /\ pc' = "built"
    /\ UNCHANGED <<input, env, opts, errs, shown, stdout, exitCode, disk, now,
                   lastOp, nIns, rpm, nodes, mtree>>

BuildFails ==
    /\ pc = "integrated"
    /\ ~env.buildable
    /\ shown' = <<"cannot build">>
    /\ Exit(2)
    /\ Phase("build failed")
    /\ UNCHANGED <<input, env, opts, pkg, FSRoot, errs, stdout, disk, pkgBytes, now,
                   lastOp, nIns, rpm, nodes, mtree>>

\* main.go: "-" is stdout, everything else names the file
PkgFile(o) == IF o.outputFileName = "-" THEN "-" ELSE o.outputFileName

Write ==
    /\ pc = "built"
    /\ LET w == WriteOutput(pkgBytes, PkgFile(opts), opts.withForce, disk, now)
       IN /\ disk' = w.file
          /\ stdout' = w.stdout
          /\ obs' = [obs EXCEPT !.phases = Append(@, "write"),
                                !.wasWritten = w.wasWritten, !.writeErr = w.err]
          /\ IF w.err # ErrNone
             THEN shown' = <<w.err>> /\ Exit(2)
             ELSE shown' = shown /\ Exit(0)
    /\ UNCHANGED <<input, env, opts, pkg, FSRoot, errs, pkgBytes, now, lastOp, nIns, rpm, nodes, mtree>>

\* the same input is built once more, with or without --force
Rerun ==
    /\ pc = "exited"
    /\ now < MaxRuns
    /\ now' = now + 1
    /\ \E force \in BOOLEAN : opts' = [opts EXCEPT !.withForce = force]
    /\ pc' = "start"
    /\ pkg' = NilPackage
    /\ FSRoot' = ImplicitRoot
    /\ errs' = <<>> /\ shown' = <<>> /\ stdout' = <<>> /\ pkgBytes' = <<>>
    /\ exitCode' = 0
    /\ obs' = FreshObs(obs.firstBytes, disk)
    /\ UNCHANGED <<input, env, disk, lastOp, nIns, rpm, nodes, mtree>>

ZeroByte == Chunk("00", "", "", <<>>)
Tampers == {"touch", "zero", "append", "chop", "empty", "remove"}
Tampered(file, kind) ==
    CASE kind = "touch" -> [file EXCEPT !.mtime = 0]
      [] kind = "zero" ->
            [file EXCEPT !.content = [i \in 1..Len(file.content) |-> ZeroByte],
                         !.writer = 0]
      [] kind = "append" -> [file EXCEPT !.content = Append(@, ZeroByte), !.writer = 0]
      [] kind = "chop" ->
            [file EXCEPT !.content = SubSeq(@, 1, Len(@) - 1), !.writer = 0]
      [] kind = "empty" -> [file EXCEPT !.content = <<>>, !.writer = 0]
      [] OTHER -> NoFile

\* between two invocations somebody else changes the file that was written
Tamper ==
    /\ pc = "exited"
    /\ now < MaxRuns
    /\ disk.exists /\ disk.writer = now /\ disk.mtime = now
    /\ \E kind \in Tampers : disk' = Tampered(disk, kind)
    /\ UNCHANGED <<pc, input, env, opts, pkg, FSRoot, errs, shown, stdout, exitCode,
                   pkgBytes, now, obs, lastOp, nIns, rpm, nodes, mtree>>

NextMain ==
    \/ OpenInputFails \/ Parse \/ Validate \/ ShowErrors \/ PrintFileName
    \/ Integrate \/ BuildPackage \/ BuildFails \/ Write \/ Rerun \/ Tamper

SpecMain == InitMain /\ [][NextMain]_vars

(***************************************************************************)
(* Tree operations as actions                                              *)
(***************************************************************************)
InitFS ==
    /\ FSRoot = [NewDirectory EXCEPT !.Implicit = TRUE]
    /\ lastOp = IdleOp
    /\ nIns = 0
    /\ pc = "library"
    /\ input = DefaultInput
    /\ env = [inputReadable |-> TRUE, buildable |-> TRUE]
    /\ opts = [format |-> "debian", withForce |-> FALSE, outputFileName |-> "-",
               filenameOnly |-> FALSE]
    /\ pkg = NilPackage
    /\ errs = <<>> /\ shown = <<>> /\ stdout = <<>> /\ pkgBytes = <<>>
    /\ exitCode = 0
    /\ disk = NoFile
    /\ now = 1
    /\ obs = FreshObs(<<>>, NoFile)
    /\ rpm = IdleRpm
    /\ nodes = NoNodes
    /\ mtree = NoText

\* pkg.InsertFSNode(path, entry) called directly
InsertFSNode ==
    /\ nIns < MaxInserts
    /\ \E path \in TreePaths, entry \in ApiEntries :
         LET r == InsertFSNodeResult(FSRoot, path, entry)
         IN /\ FSRoot' = r.node
            /\ lastOp' = [op |-> "insert", path |-> path, entry |-> entry, err |-> r.err,
                          repeat |-> RepeatOf(FSRoot, lastOp, path)]
    /\ nIns' = nIns + 1
    /\ UNCHANGED <<mainVars, rpm, nodes, mtree>>

\* one [[directory]] section handled by ParsePackageDefinition
ParseDirectory ==
    /\ nIns < MaxInserts
    /\ \E path \in ParserPaths, meta \in DirMetas :
         LET dirNode == DeclaredDir(meta)
             r == IF validatePath(path)
                  THEN InsertFSNodeResult(FSRoot, path, dirNode)
                  ELSE [err |-> ErrInvalidPath, node |-> FSRoot]
         IN /\ FSRoot' = r.node
            /\ lastOp' = [op |-> "directory", path |-> path, entry |-> dirNode, err |-> r.err,
                          repeat |-> IF validatePath(path)
                                     THEN RepeatOf(FSRoot, lastOp, path) ELSE "no"]
    /\ nIns' = nIns + 1
    /\ UNCHANGED <<mainVars, rpm, nodes, mtree>>

NextFS == InsertFSNode \/ ParseDirectory

SpecFS == InitFS /\ [][NextFS]_vars

(***************************************************************************)
(* The RPM generator at work: makeHeaderSection fills the header value by  *)
(* value, Build serializes it and puts the file together                   *)
(***************************************************************************)
\* the packages whose relations the RPM generator serializes: a relation
\* without constraint, one with two constraints, lists filled or empty
ConstrainedRelation ==
    [RelatedPackage |-> "holo-files",
     Constraints |-> <<VersionConstraint(">=", "1.0"), VersionConstraint("<", "2.0")>>]
RpmPackages ==
    { [nil |-> FALSE, Name |-> "pkg", Version |-> "1.0", PrereleaseType |-> PrereleaseTypeNone,
       PrereleaseNo |-> 0, Author |-> "", Actions |-> <<>>,
       Requires |-> rels[1], Provides |-> rels[2], Conflicts |-> rels[2],
       Replaces |-> SubSeq(rels[2], 2, Len(rels[2]))] :
      rels \in {<< <<>>, <<ConstrainedRelation, Relation("foo")>> >>,
                << <<Relation("foo")>>, <<>> >>,
                << <<ConstrainedRelation, Relation("bar")>>,
                   <<ConstrainedRelation, Relation("foo")>> >>} }

InitRPM ==
    /\ FSRoot = [NewDirectory EXCEPT !.Implicit = TRUE]
    /\ lastOp = IdleOp
    /\ nIns = 0
    /\ pc = "rpm"
    /\ input = DefaultInput
    /\ env = [inputReadable |-> TRUE, buildable |-> TRUE]
    /\ opts = [format |-> "rpm", withForce |-> FALSE, outputFileName |-> "-",
               filenameOnly |-> FALSE]
    /\ pkg \in RpmPackages
    /\ errs = <<>> /\ shown = <<>> /\ stdout = <<>> /\ pkgBytes = <<>>
    /\ exitCode = 0
    /\ disk = NoFile
    /\ now = 1
    /\ obs = FreshObs(<<>>, NoFile)
    /\ nodes = NoNodes
    /\ mtree = NoText
    /\ \E payload \in Payloads, nvr \in NameVersionReleases, archID \in ArchIDs :
          rpm = [IdleRpm EXCEPT !.phase = "header", !.payload = payload, !.nvr = nvr,
                                !.archID = archID]

Filling == rpm.phase = "header" /\ Len(rpm.h.Records) < MaxRecords
RestOfRPM == <<FSRoot, lastOp, nIns, mainVars, nodes, mtree>>

StringValue ==
    /\ Filling
    /\ \E data \in {<<>>, <<97>>}, i18n \in BOOLEAN :
          rpm' = [rpm EXCEPT !.h = AddStringValue(@, IF i18n THEN rpmtagSummary
                                                    ELSE rpmtagName, data, i18n)]
    /\ UNCHANGED RestOfRPM

Int32Value ==
    /\ Filling
    /\ \E data \in {<<>>, <<rpm.payload.UncompressedSize>>, <<0, 1>>} :
          rpm' = [rpm EXCEPT !.h = AddInt32Value(@, rpmtagArchiveSize, data)]
    /\ UNCHANGED RestOfRPM

Int16Value ==
    /\ Filling
    /\ \E data \in {<<>>, <<420>>} :
          rpm' = [rpm EXCEPT !.h = AddInt16Value(@, rpmtagFileModes, data)]
    /\ UNCHANGED RestOfRPM

StringArrayValue ==
    /\ Filling
    /\ \E data \in {<<>>, <<<<97>>, <<>>>>} :
          rpm' = [rpm EXCEPT !.h = AddStringArrayValue(@, rpmtagBasenames, data)]
    /\ UNCHANGED RestOfRPM

Build ==
    /\ rpm.phase = "header"
    /\ rpm' = [rpm EXCEPT !.phase = "built",
                          !.deps = addDependencyInformationTags(pkg),
                          !.file = RpmBuild(rpm.h, rpm.payload, rpm.nvr, rpm.archID)]
    /\ UNCHANGED RestOfRPM

NextRPM == StringValue \/ Int32Value \/ Int16Value \/ StringArrayValue \/ Build

SpecRPM == InitRPM /\ [][NextRPM]_vars

(***************************************************************************)
(* A caller inserts a set of nodes into an empty tree, in any order        *)
(***************************************************************************)
\* directories without entries, declared or with the implicit flag set by
\* the caller, a regular file and a symlink
EmptyDirs == {DeclaredDir(MetaA), DeclaredDir(MetaB), ImplicitDir}
NodeEntries == EmptyDirs \cup {File1, Link1}

\* the sets of at most MaxNodes nodes with pairwise distinct paths; two of
\* the paths spell the same place ("/" and "/.")
NodeSets ==
    LET places == { P \in SUBSET TreePaths : Cardinality(P) <= MaxNodes }
    IN UNION { { { [path |-> p, entry |-> f[p]] : p \in P } : f \in [P -> NodeEntries] } :
               P \in places }

InitOrder ==
    /\ FSRoot = [NewDirectory EXCEPT !.Implicit = TRUE]
    /\ lastOp = IdleOp
    /\ nIns = 0
    /\ pc = "library"
    /\ input = DefaultInput
    /\ env = [inputReadable |-> TRUE, buildable |-> TRUE]
    /\ opts = [format |-> "debian", withForce |-> FALSE, outputFileName |-> "-",
               filenameOnly |-> FALSE]
    /\ pkg = [NilPackage EXCEPT !.nil = FALSE, !.Name = "pkg", !.Version = "1.0"]
    /\ errs = <<>> /\ shown = <<>> /\ stdout = <<>> /\ pkgBytes = <<>>
    /\ exitCode = 0
    /\ disk = NoFile
    /\ now = 1
    /\ obs = FreshObs(<<>>, NoFile)
    /\ rpm = IdleRpm
    /\ mtree = NoText
    /\ \E S \in NodeSets : nodes = [all |-> S, left |-> S]

\* ec.Add(pkg.InsertFSNode(path, node)) for one of the nodes that are left
InsertNode ==
    /\ \E n \in nodes.left :
          LET r == InsertFSNodeResult(FSRoot, n.path, n.entry)
          IN /\ FSRoot' = r.node
             /\ errs' = IF r.err = ErrNone THEN errs ELSE Append(errs, r.err)
             /\ nodes' = [nodes EXCEPT !.left = @ \ {n}]
    /\ UNCHANGED <<lastOp, nIns, pc, input, env, opts, pkg, shown, stdout, exitCode, disk,
                   pkgBytes, now, obs, rpm, mtree>>

\* Generator.Build of the RPM generator on the tree of a definition without
\* errors: PrepareBuild, makePayload and the file tags of makeHeaderSection
FileLists ==
    /\ nodes.left = {} /\ errs = <<>>
    /\ rpm.phase = "idle"
    /\ \E order \in MapOrders :
          LET prep == PrepareBuild(pkg, FSRoot, order)
          IN /\ FSRoot' = prep.root
             /\ pkg' = prep.pkg
             /\ rpm' = [rpm EXCEPT !.phase = "files",
                                   !.cpio = MakePayload(prep.root, order),
                                   !.tags = addFileInformationTags(prep.root, order)]
    /\ UNCHANGED <<lastOp, nIns, pc, input, env, opts, errs, shown, stdout, exitCode, disk,
                   pkgBytes, now, obs, nodes, mtree>>

NextOrder == InsertNode \/ FileLists

SpecOrder == InitOrder /\ [][NextOrder]_vars

(***************************************************************************)
(* The pacman generator on a tree, and mtreeEscapeString on a text         *)
(***************************************************************************)
FooConf == PacmanFile("x\n")
SpacedLink == [type |-> "Symlink", Target |-> "/a b"]
PacmanPaths ==
    { AbsPath(<<"etc", "foo.conf">>), AbsPath(<<"etc", "a b">>), AbsPath(<<"etc", "a\\b">>),
      AbsPath(<<"etc", "foo">>), AbsPath(<<"bar">>) }
PacmanEntries == {FooConf, SpacedLink, DeclaredDir(MetaA)}
\* the sets of at most MaxNodes files, symlinks and empty directories
PacmanNodeSets ==
    LET places == { P \in SUBSET PacmanPaths : Cardinality(P) <= MaxNodes }
    IN UNION { { { [path |-> p, entry |-> f[p]] : p \in P } : f \in [P -> PacmanEntries] } :
               P \in places }

\* the tree after the nodes of S were inserted
RECURSIVE InsertAll(_, _)
InsertAll(root, S) ==
    IF S = {} THEN root
    ELSE LET n == CHOOSE m \in S : TRUE
         IN InsertAll(InsertFSNodeResult(root, n.path, n.entry).node, S \ {n})

\* the bytes that texts are made of: NUL, newline, space, "!", backslash,
\* "~", DEL and 0xFF
EscapeBytes == {0, 10, 32, 33, 92, 126, 127, 255}
Texts == UNION { [1..n -> EscapeBytes] : n \in 0..MaxText }

InitPacman ==
    /\ \E S \in PacmanNodeSets :
          /\ nodes = [all |-> S, left |-> {}]
          /\ FSRoot = InsertAll([NewDirectory EXCEPT !.Implicit = TRUE], S)
    /\ lastOp = IdleOp
    /\ nIns = 0
    /\ pc = "pacman"
    /\ input = DefaultInput
    /\ env = [inputReadable |-> TRUE, buildable |-> TRUE]
    /\ opts = [format |-> "pacman", withForce |-> FALSE, outputFileName |-> "-",
               filenameOnly |-> FALSE]
    /\ pkg = [NilPackage EXCEPT !.nil = FALSE, !.Name = "pkg", !.Version = "1.0"]
    /\ errs = <<>> /\ shown = <<>> /\ stdout = <<>> /\ pkgBytes = <<>>
    /\ exitCode = 0
    /\ disk = NoFile
    /\ now = 1
    /\ obs = FreshObs(<<>>, NoFile)
    /\ rpm = IdleRpm
    /\ mtree = NoText

\* Generator.Build: writePKGINFO, writeINSTALL, writeMTREE
PacmanBuild ==
    /\ pc = "pacman"
    /\ \E order \in MapOrders :
          FSRoot' = writeMTREE(writeINSTALL(pkg, writePKGINFO(pkg, FSRoot)), order)
    /\ pc' = "pacman built"
    /\ UNCHANGED <<lastOp, nIns, input, env, opts, pkg, errs, shown, stdout, exitCode, disk,
                   pkgBytes, now, obs, rpm, nodes, mtree>>

\* mtreeEscapeString, called on a text; what it returns does not depend on
\* the tree, so it is called in the runs of the empty tree
Escape ==
    /\ ~mtree.done /\ nodes.all = {}
    /\ \E text \in Texts :
          mtree' = [text |-> text, escaped |-> mtreeEscapeString(text), done |-> TRUE]
    /\ UNCHANGED <<FSRoot, lastOp, nIns, mainVars, rpm, nodes>>

NextPacman == PacmanBuild \/ Escape

SpecPacman == InitPacman /\ [][NextPacman]_vars


(***************************************************************************)
(* Properties of the filesystem tree                                       *)
(***************************************************************************)
EtcFoo == <<"etc", "foo">>
EtcFooBar == <<"etc", "foo", "bar">>

\* this step calls FSRoot.Insert with lastOp'.entry at lastOp'.path
InsertStep == nIns' = nIns + 1 /\ Inserted(lastOp')

\* C5: when node A was inserted at p and node B is inserted at p next, the
\* second insertion fails with "duplicate entry", unless A is an implicit
\* directory and B is a directory; then it succeeds and the tree is the one
\* obtained by inserting at p (vacant) the directory B with the entries of A
\* united with its own (an entry of A taking the place of one of B's of the
\* same name).
C5_InsertionAlgebra ==
    [][ (InsertStep /\ Inserted(lastOp) /\ lastOp.err = ErrNone
         /\ RelSplit(lastOp'.path) = RelSplit(lastOp.path))
        => LET p == RelSplit(lastOp.path)
               A == NodeAt(FSRoot, p)
               B == lastOp'.entry
           IN IF IsDir(A) /\ A.Implicit /\ IsDir(B)
              THEN /\ lastOp'.err = ErrNone
                   /\ FSRoot' = DirInsert(RemoveAt(FSRoot, p),
                                          [B EXCEPT !.Entries = A.Entries @@ B.Entries],
                                          p).node
              ELSE lastOp'.err = ErrDuplicate ]_vars

\* C5 witness: B (with an entry of its own) was inserted where the insertion
\* before had put an implicit directory A holding an entry, and both entries
\* are there now
C5_Witness ==
    /\ lastOp.repeat = "implicit" /\ lastOp.err = ErrNone
    /\ lastOp.entry = DirWithChild
    /\ Cardinality(DOMAIN NodeAt(FSRoot, RelSplit(lastOp.path)).Entries) = 2

\* C6: a declared directory inserted at /etc/foo/bar and then a declared
\* directory inserted at /etc/foo: the second insertion succeeds too, /etc/foo
\* is then a non-implicit directory with its declared metadata, and
\* /etc/foo/bar is still below it with its declared metadata.
C6_ImplicitDirCollision ==
    [][ (/\ Inserted(lastOp) /\ lastOp.err = ErrNone
         /\ RelSplit(lastOp.path) = EtcFooBar
         /\ IsDir(lastOp.entry) /\ ~lastOp.entry.Implicit
         /\ NodeAt(FSRoot, EtcFoo).Implicit
         /\ InsertStep /\ RelSplit(lastOp'.path) = EtcFoo
         /\ IsDir(lastOp'.entry) /\ ~lastOp'.entry.Implicit)
        => /\ lastOp'.err = ErrNone
           /\ IsDir(NodeAt(FSRoot', EtcFoo))
           /\ ~NodeAt(FSRoot', EtcFoo).Implicit
           /\ NodeAt(FSRoot', EtcFoo).Metadata = lastOp'.entry.Metadata
           /\ NodeAt(FSRoot', EtcFooBar) = NodeAt(FSRoot, EtcFooBar)
           /\ IsDir(NodeAt(FSRoot', EtcFooBar))
           /\ ~NodeAt(FSRoot', EtcFooBar).Implicit
           /\ NodeAt(FSRoot', EtcFooBar).Metadata = lastOp.entry.Metadata ]_vars

\* C6 witness: exactly two operations, the second one the [[directory]]
\* /etc/foo, and both declared directories are in the tree
C6_Witness ==
    /\ nIns = 2 /\ lastOp.op = "directory" /\ lastOp.err = ErrNone
    /\ lastOp.path = AbsPath(EtcFoo) /\ lastOp.entry.Metadata = MetaB
    /\ NodeAt(FSRoot, EtcFoo).Metadata = MetaB /\ ~NodeAt(FSRoot, EtcFoo).Implicit
    /\ IsDir(NodeAt(FSRoot, EtcFooBar)) /\ ~NodeAt(FSRoot, EtcFooBar).Implicit
    /\ NodeAt(FSRoot, EtcFooBar).Metadata = MetaA

IsLeaf(n) == n.type = "RegularFile" \/ n.type = "Symlink"

\* the path has a proper prefix at which root holds a regular file or symlink
BelowLeaf(root, segs) ==
    \E k \in 1..(Len(segs) - 1) : IsLeaf(NodeAt(root, SubSeq(segs, 1, k)))

\* C7: an insertion whose path has a proper prefix occupied by a regular
\* file or a symlink fails with the not-a-directory error.
C7_NotADirectory ==
    [][ (InsertStep /\ BelowLeaf(FSRoot, RelSplit(lastOp'.path)))
        => lastOp'.err = ErrNotADirectory ]_vars

\* C7 witness: an insertion below a symlink has just failed
C7_Witness ==
    /\ Inserted(lastOp) /\ lastOp.err = ErrNotADirectory
    /\ \E k \in 1..(Len(RelSplit(lastOp.path)) - 1) :
         NodeAt(FSRoot, SubSeq(RelSplit(lastOp.path), 1, k)).type = "Symlink"

\* the path denotes the root directory itself
IsRootPath(path) == path.abs /\ CleanSegs(<<>>, path.segs) = <<>>

\* this step handles a declared directory at a path denoting the root
RootDirStep ==
    /\ nIns' = nIns + 1 /\ IsRootPath(lastOp'.path)
    /\ IsDir(lastOp'.entry) /\ ~lastOp'.entry.Implicit

\* C8 as stated: inserting a declared directory at / succeeds and replaces
\* the implicit root: the root is then that directory (non-implicit, with the
\* declared metadata) and holds all the children it held before.
C8_RootReplaced ==
    [][ RootDirStep
        => /\ lastOp'.err = ErrNone
           /\ ~FSRoot'.Implicit
           /\ FSRoot'.Metadata = lastOp'.entry.Metadata
           /\ \A n \in DOMAIN FSRoot.Entries :
                n \in DOMAIN FSRoot'.Entries /\ FSRoot'.Entries[n] = FSRoot.Entries[n]
       ]_vars

\* C8 amended: a declared directory at / never replaces the root. The parser
\* rejects the path "/" (trailing slash) and leaves the tree as it is; a call
\* of InsertFSNode for the root stores the directory as the entry "." of the
\* root (adopting the entries of an implicit "." and failing with "duplicate
\* entry" on any other "."). The root keeps its implicit flag and metadata,
\* and every other child is as before.
C8_RootKept ==
    [][ RootDirStep
        => /\ FSRoot'.Implicit = FSRoot.Implicit
           /\ FSRoot'.Metadata = FSRoot.Metadata
           /\ \A n \in DOMAIN FSRoot.Entries \ {"."} :
                n \in DOMAIN FSRoot'.Entries /\ FSRoot'.Entries[n] = FSRoot.Entries[n]
           /\ DOMAIN FSRoot'.Entries \subseteq DOMAIN FSRoot.Entries \cup {"."}
           /\ (lastOp'.op = "directory" /\ HasTrailingSlash(lastOp'.path))
                => (lastOp'.err = ErrInvalidPath /\ FSRoot' = FSRoot)
           /\ Inserted(lastOp')
                => IF "." \in DOMAIN FSRoot.Entries
                      /\ ~MayReplace(FSRoot.Entries["."], lastOp'.entry)
                   THEN lastOp'.err = ErrDuplicate /\ FSRoot' = FSRoot
                   ELSE /\ lastOp'.err = ErrNone
                        /\ FSRoot'.Entries["."].Metadata = lastOp'.entry.Metadata
       ]_vars

\* C8 witness: InsertFSNode("/", dir) has succeeded on a root that holds
\* /etc, and the root is still the implicit root
C8_Witness ==
    /\ lastOp.op = "insert" /\ lastOp.path = AbsPath(<<>>) /\ lastOp.err = ErrNone
    /\ lastOp.entry = DeclaredDir(MetaA)
    /\ FSRoot.Implicit /\ "etc" \in DOMAIN FSRoot.Entries
    /\ FSRoot.Entries["."].Metadata = MetaA

(***************************************************************************)
(* Properties of main                                                      *)
(***************************************************************************)
WriteStep == pc = "built" /\ pc' = "exited"
ToFile == PkgFile(opts) # "-"
Did(name) == name \in SeqRange(obs.phases)
PhaseIndex(name) ==
    IF Did(name) THEN CHOOSE i \in 1..Len(obs.phases) : obs.phases[i] = name ELSE 0

\* C1: when the output file exists, --force is not given and the file differs
\* from the built bytes in any byte or in its length, writing fails with
\* "file already exists and has different contents; won't overwrite without
\* --force" and the file stays as it is.
C1_DifferentContentsRefused ==
    [][ (WriteStep /\ ToFile /\ ~opts.withForce /\ disk.exists
         /\ disk.content # pkgBytes)
        => /\ obs'.writeErr = ErrDifferentContents
           /\ shown' = <<ErrDifferentContents>>
           /\ disk' = disk ]_vars

\* C2: once an earlier run has written the file and nobody changed its
\* contents, a run on the same input without --force never writes the file
\* (contents and mtime stay) and exits with code 0.
C2_RebuildLeavesFile ==
    (now > 1 /\ ~opts.withForce /\ obs.start.exists /\ obs.start.writer # 0)
    => /\ disk = obs.start
       /\ ~obs.wasWritten
       /\ pc = "exited" => exitCode = 0

C2_Witness ==
    /\ pc = "exited" /\ now > 1 /\ ~opts.withForce
    /\ obs.start.exists /\ obs.start.writer = 1 /\ obs.start.mtime = 1
    /\ Did("write") /\ exitCode = 0 /\ disk.mtime = 1

\* the bytes that a run on the given input builds when the maps yield their
\* keys as orderHolo and orderBuild say
BuildOf(in, format, orderHolo, orderBuild) ==
    LET r == ParsePackageDefinition(in)
    IN GeneratorBuild(DoMagicalHoloIntegration(r.pkg, r.root, orderHolo), r.root,
                      format, orderBuild).bytes

HoloIds == PluginSet(FSRoot, NameOrder)

DefinitionDefects(in) ==
    IF ~in.toml THEN {ErrDecode}
    ELSE (IF in.PrereleaseType \notin {"", "none", "alpha", "beta"}
          THEN {ErrPrereleaseType} ELSE {})
         \cup (IF in.PrereleaseType \in {"", "none"} /\ in.PrereleaseNo # 0
               THEN {ErrPrereleaseNoNonzero} ELSE {})
         \cup (IF in.PrereleaseType \in {"alpha", "beta"} /\ in.PrereleaseNo = 0
               THEN {ErrPrereleaseNoZero} ELSE {})
         \cup (IF in.Name = "" THEN {ErrMissingName} ELSE {})
         \cup (IF ContainsSlashOrNewline(in.Name) THEN {ErrInvalidName} ELSE {})
         \cup (IF in.Version = "" THEN {ErrMissingVersion} ELSE {})
         \cup (IF in.Version # "" /\ ~versionRx(in.Version) THEN {ErrInvalidVersion} ELSE {})
         \cup (IF in.Author # "" /\ ~authorRx(in.Author) THEN {ErrInvalidAuthor} ELSE {})
         \cup {ErrInvalidReference : i \in {j \in 1..Len(in.Requires) :
                                              ~relatedPackageRx(in.Requires[j])}}
         \cup {ErrInvalidPath : i \in {j \in 1..Len(in.File) :
                                         ~validatePath(in.File[j].path)}}
         \cup {ErrDuplicate : i \in {j \in 1..Len(in.File) :
                                       \E k \in 1..(j - 1) : in.File[k].path = in.File[j].path}}

\* every error that the generator of the format has to find in the definition
ValidationDefects(in, format) ==
    IF ~in.toml \/ format = "rpm" THEN {}
    ELSE LET NameOk(n) == IF format = "debian" THEN DebianNameRx(n) ELSE PacmanNameRx(n)
             RelOk(n) == IF format = "debian" THEN DebianNameRx(n)
                         ELSE PacmanNameRx(n)
                              \/ n \in {"group:foo-bar", "except:bar", "group:foo-"}
         IN (IF in.Name # "" /\ ~ContainsSlashOrNewline(in.Name) /\ ~NameOk(in.Name)
             THEN {ErrNameNotAcceptable} ELSE {})
            \cup {ErrRelatedNotAcceptable : i \in {j \in 1..Len(in.Requires) :
                      /\ relatedPackageRx(in.Requires[j])
                      /\ ~RelOk(FindStringSubmatch(in.Requires[j]).name)}}
            \cup (IF format = "debian" /\ in.Author = "" THEN {ErrAuthorRequired} ELSE {})

InputDefects == DefinitionDefects(input) \cup ValidationDefects(input, opts.format)

\* C9: a run ends with exit code 1 exactly when the input could not be opened
\* or has a definition or validation error, with exit code 2 exactly when the
\* input is sound and building or writing the output failed, and with exit
\* code 0 otherwise, which includes the file that was already up to date.
C9_ExitCodes ==
    pc = "exited"
    => LET inputError == ~env.inputReadable \/ InputDefects # {}
           outputError == /\ ~inputError /\ ~opts.filenameOnly
                          /\ (~env.buildable \/ obs.writeErr # ErrNone)
       IN /\ exitCode = 1 <=> inputError
          /\ exitCode = 2 <=> outputError
          /\ exitCode = 0 <=> ~inputError /\ ~outputError
          /\ (Did("write") /\ ~obs.wasWritten /\ obs.writeErr = ErrNone) => exitCode = 0

C9_Witness ==
    /\ pc = "exited" /\ exitCode = 2 /\ now > 1
    /\ obs.writeErr = ErrDifferentContents

\* C10: when a run exits with code 1 on an input that could be read, every
\* definition error and every validation error of the input was shown.
C10_AllErrorsShown ==
    (pc = "exited" /\ exitCode = 1 /\ env.inputReadable)
    => InputDefects \subseteq SeqRange(shown)

\* C11: with --force the output file is written with the bytes just built,
\* whether or not a file was there and whatever it held; the run reports the
\* write and exits with code 0.
C11_ForceWrites ==
    [][ (WriteStep /\ ToFile /\ opts.withForce)
        => /\ disk' = [exists |-> TRUE, content |-> pkgBytes, mtime |-> now, writer |-> now]
           /\ obs'.wasWritten /\ obs'.writeErr = ErrNone
           /\ exitCode' = 0 ]_vars

\* a forced rebuild over a file whose contents were changed in between
C11_Witness ==
    /\ pc = "exited" /\ now > 1 /\ opts.withForce /\ Did("write")
    /\ obs.start.exists /\ obs.start.content # pkgBytes
    /\ disk.content = pkgBytes /\ disk.mtime = now

(***************************************************************************)
(* Properties of Walk and of what is built on it                           *)
(***************************************************************************)
IsProperPrefix(p, q) == Len(p) < Len(q) /\ SubSeq(q, 1, Len(p)) = p
Siblings(p, q) ==
    /\ Len(p) = Len(q) /\ Len(p) > 0 /\ p # q
    /\ SubSeq(p, 1, Len(p) - 1) = SubSeq(q, 1, Len(q) - 1)

\* the paths come with every directory before what is below it, and with the
\* entries of one directory in ascending order of their names
InWalkOrder(paths) ==
    \A i, j \in 1..Len(paths) :
        /\ IsProperPrefix(paths[i], paths[j]) => i < j
        /\ (Siblings(paths[i], paths[j]) /\ i < j)
           => StrLess(paths[i][Len(paths[i])], paths[j][Len(paths[j])])

RECURSIVE PathsBelow(_, _)
PathsBelow(node, path) ==
    {path} \cup (IF IsDir(node)
                 THEN UNION { PathsBelow(node.Entries[n], Append(path, n)) :
                              n \in DOMAIN node.Entries }
                 ELSE {})

\* C12: Walk visits every node once, every directory before its descendants
\* and the entries of every directory in ascending order of their names; the
\* headers of ToTarArchive come in the same order; neither depends on the
\* order in which the map of a directory yields the inserted entries.
C12_WalkOrder ==
    \A order \in MapOrders :
        LET visits == WalkAll(FSRoot, <<>>, order)
            tar == ToTarArchive(FSRoot, TRUE, FALSE, order)
            paths == [i \in 1..Len(visits) |-> visits[i].path]
        IN /\ InWalkOrder(paths)
           /\ InWalkOrder([i \in 1..Len(tar) |-> tar[i].path])
           /\ SeqRange(paths) = PathsBelow(FSRoot, <<>>)
           /\ Len(paths) = Cardinality(PathsBelow(FSRoot, <<>>))
           /\ Len(tar) = Len(paths)
           /\ visits = WalkAll(FSRoot, <<>>, NameOrder)

\* /etc/foo was inserted before /etc/bar, and /etc/foo has an entry of its own
C12_Witness ==
    /\ lastOp.op = "insert" /\ lastOp.err = ErrNone
    /\ lastOp.path = AbsPath(<<"etc", "bar">>)
    /\ NodeAt(FSRoot, <<"etc", "foo", "bar">>) # NoEntry
    /\ NodeAt(FSRoot, <<"etc", "bar">>) # NoEntry

VisitedPaths(w) == { w.visits[i].path : i \in 1..Len(w.visits) }
SkipAt(path) == [skip |-> {path}, fail |-> {}]
EtcBar == <<"etc", "bar">>

\* C13: when the callback returns SkipDir for a directory, Walk visits the
\* directory and nothing below it, visits everything else in the usual order,
\* and returns no error; with a callback that always returns nil it visits
\* what the plain walk visits.
C13_SkipDir ==
    \A order \in MapOrders :
        /\ Walk(FSRoot, <<>>, order, NilCallback)
              = [visits |-> WalkAll(FSRoot, <<>>, order), err |-> ErrNone]
        /\ \A dir \in { p \in PathsBelow(FSRoot, <<>>) : IsDir(NodeAt(FSRoot, p)) } :
              LET w == Walk(FSRoot, <<>>, order, SkipAt(dir))
              IN /\ w.err = ErrNone
                 /\ VisitedPaths(w) = { p \in PathsBelow(FSRoot, <<>>) :
                                           ~IsProperPrefix(dir, p) }
                 /\ Len(w.visits) = Cardinality(VisitedPaths(w))
                 /\ InWalkOrder([i \in 1..Len(w.visits) |-> w.visits[i].path])

\* /etc/bar is a directory with an entry, /etc/foo comes after it; skipping
\* /etc/bar leaves /etc/bar/bar out and still visits /etc/foo
C13_Witness ==
    /\ NodeAt(FSRoot, <<"etc", "bar", "bar">>) # NoEntry
    /\ NodeAt(FSRoot, EtcFoo) # NoEntry
    /\ LET w == Walk(FSRoot, <<>>, NameOrder, SkipAt(EtcBar))
       IN /\ EtcFoo \in VisitedPaths(w) /\ EtcBar \in VisitedPaths(w)
          /\ <<"etc", "bar", "bar">> \notin VisitedPaths(w)
          /\ w.err = ErrNone

(***************************************************************************)
(* Properties of PostponeUnmaterializable                                  *)
(***************************************************************************)
CarriesName(node) ==
    /\ node.type \in {"Directory", "RegularFile"}
    /\ HasName(node.Metadata.Owner) \/ HasName(node.Metadata.Group)

NamedPaths(root) == { p \in PathsBelow(root, <<>>) : CarriesName(NodeAt(root, p)) }

\* the tree with every owner and group name taken out and all else kept
RECURSIVE WithoutNames(_)
WithoutNames(node) ==
    IF node.type = "Symlink" THEN node
    ELSE LET meta == [node.Metadata EXCEPT
                         !.Owner = IF HasName(@) THEN NilRef ELSE @,
                         !.Group = IF HasName(@) THEN NilRef ELSE @]
         IN IF IsDir(node)
            THEN [node EXCEPT !.Metadata = meta,
                              !.Entries = [n \in DOMAIN node.Entries |->
                                              WithoutNames(node.Entries[n])]]
            ELSE [node EXCEPT !.Metadata = meta]

\* C14: one application of PostponeUnmaterializable leaves no owner or group
\* name in the tree, changes nothing else and gives one script line for every
\* node that had a name; a second application gives the empty script and
\* leaves the tree as it is.
C14_PostponeIdempotent ==
    \A order \in MapOrders :
        LET once == PostponeUnmaterializable(FSRoot, <<>>, order)
            twice == PostponeUnmaterializable(once.node, <<>>, order)
        IN /\ NamedPaths(once.node) = {}
           /\ once.node = WithoutNames(FSRoot)
           /\ { once.script[i].path : i \in 1..Len(once.script) } = NamedPaths(FSRoot)
           /\ Len(once.script) = Cardinality(NamedPaths(FSRoot))
           /\ twice.script = <<>>
           /\ twice.node = once.node

\* a directory with owner and group names holds a file with a group name
C14_Witness ==
    /\ CarriesName(NodeAt(FSRoot, <<"etc">>))
    /\ NodeAt(FSRoot, EtcFoo) = File1
    /\ Len(PostponeUnmaterializable(FSRoot, <<>>, NameOrder).script) > 1

(***************************************************************************)
(* Properties of DoMagicalHoloIntegration                                  *)
(***************************************************************************)
IntegrateStep == pc = "validated" /\ pc' = "integrated"
NamesOf(rels) == [i \in 1..Len(rels) |-> rels[i].RelatedPackage]
Ascending(names) == \A i, j \in 1..Len(names) : i < j => StrLess(names[i], names[j])

\* C15: Holo integration keeps the requirements that were there, in their
\* order and with their constraints, and appends behind them one relation
\* without constraints for every plugin id of the tree whose holo-<id> is not
\* yet required, in ascending order of the ids, and nothing else; afterwards
\* every such holo-<id> is required exactly once.
C15_HoloRequires ==
    [][ IntegrateStep
        => LET old == pkg.Requires
               new == pkg'.Requires
               added == SubSeq(new, Len(old) + 1, Len(new))
               deps == { HoloDepName(id) : id \in HoloIds }
           IN /\ Len(new) >= Len(old) /\ SubSeq(new, 1, Len(old)) = old
              /\ SeqRange(NamesOf(added)) = deps \ SeqRange(NamesOf(old))
              /\ Ascending(NamesOf(added))
              /\ \A i \in 1..Len(added) : added[i].Constraints = <<>>
              /\ \A d \in deps :
                    Cardinality({ i \in 1..Len(new) : new[i].RelatedPackage = d }) = 1 ]_vars

\* holo-files was required with a constraint, the users plugin was inserted
\* first: holo-files stays as it was and holo-users is appended
C15_Witness ==
    /\ pc = "integrated"
    /\ input.Requires = <<"holo-files>=1.0">> /\ input.File = <<HoloFile2, HoloFile1>>
    /\ pkg.Requires = <<[RelatedPackage |-> "holo-files",
                         Constraints |-> <<VersionConstraint(">=", "1.0")>>],
                        Relation("holo-users")>>

BuildStep == pc = "integrated" /\ pc' = "built"
HoloActions == <<Action(SetupAction, HoloApply), Action(CleanupAction, HoloApply)>>
StartsWith(actions, first) ==
    Len(actions) >= Len(first) /\ SubSeq(actions, 1, Len(first)) = first

\* C16 as claimed: once the package is built from a tree with files below
\* two plugin directories, its action list begins with the setup and the
\* cleanup "holo apply", ahead of every other action.
C16_HoloApplyFirst ==
    (Did("build") /\ Cardinality(HoloIds) >= 2) => StartsWith(pkg.Actions, HoloActions)

\* C16 as the code has it: Holo integration puts the two "holo apply"
\* actions ahead of the actions of the definition (and leaves the list alone
\* when the tree has no plugin), and the build leaves them first unless the
\* tree carries an owner or group name: then PrepareBuild puts one setup
\* action with the chown and chgrp lines ahead of them.
C16_HoloApplyAfterChown ==
    [][ /\ IntegrateStep
           => pkg'.Actions = (IF HoloIds = {} THEN <<>> ELSE HoloActions) \o pkg.Actions
        /\ (BuildStep /\ HoloIds # {})
           => /\ StartsWith(pkg.Actions, HoloActions)
              /\ IF NamedPaths(FSRoot) = {}
                 THEN pkg'.Actions = pkg.Actions
                 ELSE /\ Tail(pkg'.Actions) = pkg.Actions
                      /\ Head(pkg'.Actions).Type = SetupAction
                      /\ { line.path : line \in SeqRange(Head(pkg'.Actions).Content) }
                            = NamedPaths(FSRoot)
                      /\ \A line \in SeqRange(Head(pkg'.Actions).Content) :
                            line.kind \in {"chown", "chgrp"} ]_vars

\* files below two plugins, one of them owned by name, and an action of the
\* definition: chown, then the two holo apply, then the action of the definition
C16_Witness ==
    /\ pc = "built"
    /\ input.File = <<OwnedHoloFile, HoloFile2>> /\ input.Action = <<UserAction>>
    /\ Len(pkg.Actions) = 4
    /\ pkg.Actions[1].Content[1].kind = "chown"
    /\ SubSeq(pkg.Actions, 2, 3) = HoloActions
    /\ pkg.Actions[4] = Action(SetupAction, <<ScriptLine("echo", "", "", <<>>)>>)

(***************************************************************************)
(* Properties of the requirements of a pacman package                      *)
(***************************************************************************)
\* the names a relation speaks about, and whether it excludes them
Mentions(rel) ==
    IF RelName(rel.RelatedPackage).isGroup
    THEN SeqRange(resolvePackageGroup(RelName(rel.RelatedPackage).name))
    ELSE {RelName(rel.RelatedPackage).name}
IsDirect(rel) ==
    ~RelName(rel.RelatedPackage).isGroup /\ ~RelName(rel.RelatedPackage).isNegated

\* a name is accepted when the last relation that mentions it does not exclude it
AcceptedNames(rels) ==
    { k \in UNION { Mentions(rels[i]) : i \in 1..Len(rels) } :
        \E i \in 1..Len(rels) :
           /\ k \in Mentions(rels[i]) /\ ~RelName(rels[i].RelatedPackage).isNegated
           /\ \A j \in (i + 1)..Len(rels) : k \notin Mentions(rels[j]) }
DirectRels(rels) ==
    SelectSeq(rels, LAMBDA rel : IsDirect(rel) /\ rel.RelatedPackage \in AcceptedNames(rels))
RequiresLines == SelectSeq(pkgBytes, LAMBDA chunk : chunk.kind = "requires")

\* C17: the requirements of a pacman package are the relations that name an
\* accepted package directly, as they were given and with their constraints,
\* followed by one line without constraint for every other accepted name, in
\* ascending order of the names; a group less an excluded member gives the
\* other members.
C17_Requirements ==
    (pc = "built" /\ opts.format = "pacman")
    => LET direct == compilePackageRelations("requires", DirectRels(pkg.Requires))
           others == AcceptedNames(pkg.Requires) \ SeqRange(NamesOf(DirectRels(pkg.Requires)))
           added == SubSeq(RequiresLines, Len(direct) + 1, Len(RequiresLines))
       IN /\ StartsWith(RequiresLines, direct)
          /\ Len(added) = Cardinality(others)
          /\ { line.a : line \in SeqRange(added) } = others
          /\ \A i, j \in 1..Len(added) : i < j => StrLess(added[i].a, added[j].a)
          /\ \A line \in SeqRange(added) : line.b = "" /\ line.path = <<>>

(***************************************************************************)
(* Properties of the RPM file, read as a reader of the format reads it     *)
(***************************************************************************)
LeadSize == 96

\* the 32-bit field at an offset of the file, read as a two's complement number
Int32At(file, off) ==
    (IF file[off + 1] >= 128 THEN file[off + 1] - 256 ELSE file[off + 1]) * 16777216
    + file[off + 2] * 65536 + file[off + 3] * 256 + file[off + 4]

RecordAt(file, off) ==
    [Tag |-> Int32At(file, off), Type |-> Int32At(file, off + 4),
     Offset |-> Int32At(file, off + 8), Count |-> Int32At(file, off + 12)]

\* the header structure at an offset: the counts of its header record, where
\* its data begins and where it ends
SectionAt(file, off) ==
    LET nindex == Int32At(file, off + 8)
        hsize == Int32At(file, off + 12)
    IN [nindex |-> nindex, hsize |-> hsize,
        index |-> [i \in 1..nindex |-> RecordAt(file, off + 16 * i)],
        store |-> off + 16 + 16 * nindex,
        end |-> off + 16 + 16 * nindex + hsize]

NextMultipleOf8(n) == CHOOSE m \in n..(n + 7) : m % 8 = 0

SignatureSection == SectionAt(rpm.file, LeadSize)
HeaderOffset == NextMultipleOf8(SignatureSection.end)
HeaderSection == SectionAt(rpm.file, HeaderOffset)
HeaderBytes == SubSeq(rpm.file, HeaderOffset + 1, HeaderSection.end)
PayloadBytes == SubSeq(rpm.file, HeaderSection.end + 1, Len(rpm.file))

\* the bytes of the value of a tag of the signature section
SignatureValue(tag, size) ==
    LET ir == CHOOSE r \in SeqRange(SignatureSection.index) : r.Tag = tag
    IN SubSeq(rpm.file, SignatureSection.store + ir.Offset + 1,
              SignatureSection.store + ir.Offset + size)

\* C18: in a built RPM file the SHA-1 value of the signature header is the
\* (hexadecimal) digest of the bytes of the immutable header and of nothing
\* else, and its MD5 value is the digest of the immutable header followed by
\* the payload.
C18_Digests ==
    rpm.phase = "built"
    => /\ HeaderBytes = ToBinary(rpm.h, rpmtagHeaderImmutable)
       /\ PayloadBytes = rpm.payload.Binary
       /\ SignatureValue(rpmsigtagSHA1, 41) = Append(EncodeToString(sha1sum(HeaderBytes)), 0)
       /\ SignatureValue(rpmsigtagMD5, 16) = md5sum(HeaderBytes \o PayloadBytes)

C18_Witness ==
    /\ rpm.phase = "built" /\ Len(rpm.h.Records) = MaxRecords
    /\ PayloadBytes # <<>>
    /\ SignatureValue(rpmsigtagSHA1, 41) = Append(EncodeToString(sha1sum(HeaderBytes)), 0)
    /\ sha1sum(HeaderBytes) # sha1sum(HeaderBytes \o PayloadBytes)

\* the region trailer of a header structure: its last 16 bytes
Trailer(section) == RecordAt(rpm.file, section.end - 16)
RegionTagOf(section) ==
    IF section = SignatureSection THEN rpmtagHeaderSignatures ELSE rpmtagHeaderImmutable

\* C19: in either header structure of a built file the offset of the region
\* trailer is the 32-bit two's complement of 16 times the number of index
\* records written, the record of the region tag included; that record comes
\* first in the index and points at the trailer.
C19_RegionTrailer ==
    rpm.phase = "built"
    => /\ HeaderSection.nindex = Len(rpm.h.Records) + 1
       /\ \A section \in {SignatureSection, HeaderSection} :
             /\ section.end - section.store = section.hsize
             /\ Trailer(section) =
                   rpmHeaderIndexRecord(RegionTagOf(section), rpmBinType,
                                        0 - 16 * section.nindex, 16)
             /\ SubSeq(rpm.file, section.end - 7, section.end - 4)
                   = <<255, 255, 255 - ((16 * section.nindex - 1) \div 256),
                       (0 - 16 * section.nindex) % 256>>
             /\ section.index[1] =
                   rpmHeaderIndexRecord(RegionTagOf(section), rpmBinType,
                                        section.hsize - 16, 16)
             /\ \A i \in 2..section.nindex : section.index[i].Tag # RegionTagOf(section)

C19_Witness ==
    /\ rpm.phase = "built" /\ Len(rpm.h.Records) = 3
    /\ Trailer(HeaderSection).Offset = 0 - 64
    /\ SubSeq(rpm.file, HeaderSection.end - 7, HeaderSection.end - 4) = <<255, 255, 255, 192>>
    /\ Trailer(SignatureSection).Offset = 0 - 80

HeaderMagic == <<142, 173, 232, 1, 0, 0, 0, 0>>
MagicAt(off) == SubSeq(rpm.file, off + 1, off + 8)

\* C20: in a built file the signature header begins right behind the lead
\* and the immutable header at the first multiple of 8 behind the signature
\* header; both offsets are multiples of 8, the bytes in between are zero,
\* and the payload ends the file.
C20_Alignment ==
    rpm.phase = "built"
    => /\ LeadSize % 8 = 0 /\ HeaderOffset % 8 = 0
       /\ SubSeq(rpm.file, 1, LeadSize) = newLead(rpm.nvr, rpm.archID)
       /\ MagicAt(LeadSize) = HeaderMagic
       /\ MagicAt(HeaderOffset) = HeaderMagic
       /\ \A i \in (SignatureSection.end + 1)..HeaderOffset : rpm.file[i] = 0
       /\ HeaderSection.nindex = Len(rpm.h.Records) + 1
       /\ Len(rpm.file) = HeaderSection.end + Len(rpm.payload.Binary)

C20_Witness ==
    /\ rpm.phase = "built"
    /\ SignatureSection.end % 8 # 0
    /\ HeaderOffset > SignatureSection.end
    /\ MagicAt(HeaderOffset) = HeaderMagic
    /\ \A i \in (SignatureSection.end + 1)..HeaderOffset : rpm.file[i] = 0

(***************************************************************************)
(* Properties of a run that finds errors                                   *)
(***************************************************************************)
\* this run has found an error in the definition, or will find one
RunHasErrors == errs # <<>> \/ (env.inputReadable /\ InputDefects # {})

\* C25: a run whose input has a parse or validation error never comes to
\* integrate, build or write, leaves the output file as it was when the run
\* began, whether the file existed or not, prints nothing to standard
\* output and ends with exit code 1.
C25_ErrorsStopBeforeBuild ==
    RunHasErrors
    => /\ ~Did("holo") /\ ~Did("build") /\ ~Did("build failed") /\ ~Did("write")
       /\ pc \notin {"integrated", "built"}
       /\ pkgBytes = <<>> /\ stdout = <<>>
       /\ disk = obs.start
       /\ pc = "exited" => exitCode = 1 /\ shown # <<>>

\* a definition with a requirement that the Debian generator refuses, and
\* the file of somebody else still where the output would go
C25_Witness ==
    /\ pc = "exited" /\ exitCode = 1 /\ opts.format = "debian" /\ opts.withForce
    /\ input.Requires = <<"Upper">> /\ input.Name = "pkg"
    /\ Did("validate")
    /\ disk = ForeignFile

(***************************************************************************)
(* Properties of failed and of reordered insertions                        *)
(***************************************************************************)
TreeStep == nIns' = nIns + 1

\* C26: an insertion that fails, for whatever reason, leaves the tree as it
\* was: no directory spawned on the way remains, and no node, metadata or
\* implicit flag has changed.
C26_FailedInsertKeepsTree ==
    [][ (TreeStep /\ lastOp'.err # ErrNone) => FSRoot' = FSRoot ]_vars

\* an insertion at /etc/foo/bar has just failed at the file /etc/foo below
\* the declared directory /etc, which still is declared and holds nothing else
C26_Witness ==
    /\ Inserted(lastOp) /\ lastOp.err = ErrNotADirectory
    /\ RelSplit(lastOp.path) = EtcFooBar
    /\ IsDir(NodeAt(FSRoot, <<"etc">>)) /\ ~NodeAt(FSRoot, <<"etc">>).Implicit
    /\ IsLeaf(NodeAt(FSRoot, EtcFoo))
    /\ DOMAIN NodeAt(FSRoot, <<"etc">>).Entries = {"foo"}

\* the tree that holds exactly the nodes of S: every node at its place, and
\* an implicit directory at every place on the way to one that no node takes
RECURSIVE TreeOf(_, _)
TreeOf(S, at) ==
    LET here == { n \in S : RelSplit(n.path) = at }
        self == IF here = {} THEN SpawnedDirectory ELSE (CHOOSE n \in here : TRUE).entry
        below == { RelSplit(n.path)[Len(at) + 1] :
                     n \in { m \in S : /\ Len(RelSplit(m.path)) > Len(at)
                                       /\ SubSeq(RelSplit(m.path), 1, Len(at)) = at } }
    IN IF IsDir(self)
       THEN [self EXCEPT !.Entries = [name \in below |-> TreeOf(S, Append(at, name))]]
       ELSE self

\* a file or symlink of S lies on the way to another node of S
LeafInTheWay(S) ==
    \E a, b \in S : IsLeaf(a.entry) /\ IsProperPrefix(RelSplit(a.path), RelSplit(b.path))

\* two nodes of S are spelled differently and take the same place
SamePlace(S) == \E a, b \in S : a # b /\ RelSplit(a.path) = RelSplit(b.path)

\* no node of S that shares its place was handed in with the implicit flag
\* set (the flag marks directories the tree created itself: no caller of
\* Insert sets it on a node, see ParseFiles)
DeclaredWhereShared(S) ==
    \A a, b \in S : a # b /\ RelSplit(a.path) = RelSplit(b.path)
                    => ~(IsDir(a.entry) /\ a.entry.Implicit)

DeclaredActions == ParseActions(<<>>, <<>>, input.Action).actions
\* an action the compiler adds: "holo apply", or a setup action of chown and
\* chgrp lines
IsAdded(action) ==
    \/ action \in SeqRange(HoloActions)
    \/ /\ action.Type = SetupAction
       /\ action.Content # <<>>
       /\ \A line \in SeqRange(action.Content) : line.kind \in {"chown", "chgrp"}
AddedCount(actions) == Len(actions) - Len(DeclaredActions)
\* a file section names an owner
OwnedByName(files) == \E i \in 1..Len(files) : ~files[i].owner.nil /\ files[i].owner.Str # ""

ExcludedNames(rels) ==
    UNION { Mentions(rels[i]) :
              i \in { j \in 1..Len(rels) : RelName(rels[j].RelatedPackage).isNegated } }

\* C29: no requirement line of a pacman package names a package that a
\* relation of the definition excludes with "except:", wherever that
\* relation stands among the others.
C29_ExcludedNeverRequired ==
    (pc = "built" /\ opts.format = "pacman")
    => \A line \in SeqRange(RequiresLines) : line.a \notin ExcludedNames(pkg.Requires)

(***************************************************************************)
(* Properties of the file lists of an RPM package                          *)
(***************************************************************************)
\* the paths of the nodes that are not implicit directories
ListedPaths(root) ==
    { p \in PathsBelow(root, <<>>) : ~(IsDir(NodeAt(root, p)) /\ NodeAt(root, p).Implicit) }
\* the per-file arrays of addFileInformationTags
PerFileArrays(t) ==
    <<t.sizes, t.modes, t.rdevs, t.mtimes, t.md5s, t.linktos, t.flags, t.ownerNames,
      t.groupNames, t.devices, t.inodes, t.langs, t.dirIndexes, t.basenames>>

\* C21: every per-file array of the RPM header has one element for every
\* node of the tree that is not an implicit directory, so all of them have
\* the same length; DirNames holds every parent directory of such a node
\* once, and every element of DirIndexes points into it.
C21_FileArraysAligned ==
    rpm.phase = "files"
    => /\ \A i \in 1..Len(PerFileArrays(rpm.tags)) :
             Len(PerFileArrays(rpm.tags)[i]) = Cardinality(ListedPaths(FSRoot))
       /\ rpm.tags.inodeNumber = Cardinality(ListedPaths(FSRoot))
       /\ SeqRange(rpm.tags.dirnames) = { Dir(p) : p \in ListedPaths(FSRoot) }
       /\ Len(rpm.tags.dirnames) = Cardinality(SeqRange(rpm.tags.dirnames))
       /\ \A i \in 1..Len(rpm.tags.dirIndexes) :
             rpm.tags.dirIndexes[i] \in 0..(Len(rpm.tags.dirnames) - 1)

\* an implicit /etc that is skipped, a declared /etc/foo with a file in it
\* and a symlink /etc/bar: three elements in every array, two directories
C21_Witness ==
    /\ rpm.phase = "files"
    /\ IsDir(NodeAt(FSRoot, <<"etc">>)) /\ NodeAt(FSRoot, <<"etc">>).Implicit
    /\ rpm.tags.basenames = <<"bar", "foo", "bar">>
    /\ rpm.tags.dirnames = <<<<"etc">>, EtcFoo>>
    /\ rpm.tags.dirIndexes = <<0, 0, 1>>
    /\ rpm.tags.linktos = <<"/etc", "", "">>
    /\ rpm.tags.sizes = <<4, 4096, 2>>

\* reading a field of a CPIO header: eight hexadecimal digits
HexValue(digit) == IF digit < 58 THEN digit - 48 ELSE digit - 87
RECURSIVE ParseHex(_)
ParseHex(digits) ==
    IF digits = <<>> THEN 0
    ELSE 16 * ParseHex(SubSeq(digits, 1, Len(digits) - 1)) + HexValue(digits[Len(digits)])
\* the path of the i-th file of the header: its directory and its basename
HeaderPath(t, i) == Append(t.dirnames[t.dirIndexes[i] + 1], t.basenames[i])

\* C30: the file entries of the RPM header and the records of the CPIO
\* payload are as many as the tree has nodes that are not implicit
\* directories; the i-th of either is the same node, with the inode number
\* i in both, the same mode, and the same size unless it is a directory;
\* the nodes come in the order of the walk, every one once.
C30_HeaderMatchesPayload ==
    rpm.phase = "files"
    => /\ Len(rpm.cpio) = Len(rpm.tags.inodes)
       /\ Len(rpm.cpio) = Len(rpm.tags.basenames)
       /\ Len(rpm.cpio) = Len(rpm.tags.dirIndexes)
       /\ { rpm.cpio[i].name : i \in 1..Len(rpm.cpio) } = ListedPaths(FSRoot)
       /\ Len(rpm.cpio) = Cardinality(ListedPaths(FSRoot))
       /\ InWalkOrder([i \in 1..Len(rpm.cpio) |-> rpm.cpio[i].name])
       /\ \A i \in 1..Len(rpm.cpio) :
             LET record == rpm.cpio[i]
                 node == NodeAt(FSRoot, record.name)
             IN /\ ParseHex(record.InodeNumber) = i
                /\ rpm.tags.inodes[i] = i
                /\ Dir(record.name) = rpm.tags.dirnames[rpm.tags.dirIndexes[i] + 1]
                /\ Base(record.name) = rpm.tags.basenames[i]
                /\ Int16(ParseHex(record.Mode)) = rpm.tags.modes[i]
                /\ ParseHex(record.Mode) = FileModeForArchive(node)
                /\ ParseHex(record.NameSize) = PathLen(record.name) + 2
                /\ IF IsDir(node)
                   THEN rpm.tags.sizes[i] = 4096 /\ ParseHex(record.FileSize) = 0
                   ELSE rpm.tags.sizes[i] = ParseHex(record.FileSize)
                /\ node.type = "Symlink" => rpm.tags.linktos[i] = record.data
                /\ node.type = "RegularFile" => rpm.tags.md5s[i] = MD5Digest(record.data)

\* a symlink /etc/bar, a declared /etc/foo and a file in it below an implicit
\* /etc: three records with the inode numbers 1, 2 and 3
C30_Witness ==
    /\ rpm.phase = "files"
    /\ Len(rpm.cpio) = 3
    /\ IsDir(NodeAt(FSRoot, <<"etc">>)) /\ NodeAt(FSRoot, <<"etc">>).Implicit
    /\ [i \in 1..3 |-> rpm.cpio[i].name] = <<EtcBar, EtcFoo, EtcFooBar>>
    /\ rpm.cpio[3].InodeNumber = <<48, 48, 48, 48, 48, 48, 48, 51>>
    /\ rpm.cpio[3].data = "x\n"
    /\ rpm.tags.inodes = <<1, 2, 3>>

(***************************************************************************)
(* Properties of the dependency arrays of an RPM package                   *)
(***************************************************************************)
RpmlibNames ==
    <<"rpmlib(VersionedDependencies)", "rpmlib(CompressedFileNames)",
      "rpmlib(PayloadIsLzma)", "rpmlib(PayloadFilesHavePrefix)">>
\* the names of the relations of a list, one for every constraint
RECURSIVE NamesPerConstraint(_)
NamesPerConstraint(rels) ==
    IF rels = <<>> THEN <<>>
    ELSE [i \in 1..(IF Head(rels).Constraints = <<>> THEN 1 ELSE Len(Head(rels).Constraints)) |->
             Head(rels).RelatedPackage]
         \o NamesPerConstraint(Tail(rels))
AlignedArrays(set) == Len(set.names) = Len(set.flags) /\ Len(set.names) = Len(set.versions)

\* C22: the Requires arrays end with the four rpmlib pseudo-dependencies
\* VersionedDependencies, CompressedFileNames, PayloadIsLzma and
\* PayloadFilesHavePrefix, in this order, with their versions and the rpmlib
\* flags; before them stand the requirements of the package, and only they;
\* the arrays of Provides, Conflicts and Obsoletes hold the relations of the
\* package and no pseudo-dependency.
C22_PseudoDependenciesLast ==
    rpm.deps # NoDeps
    => LET req == rpm.deps.requires
           own == Len(req.names) - 4
       IN /\ own >= 0 /\ AlignedArrays(req)
          /\ SubSeq(req.names, own + 1, own + 4) = RpmlibNames
          /\ SubSeq(req.versions, own + 1, own + 4) = <<"3.0.3-1", "3.0.4-1", "4.4.6-1", "4.0-1">>
          /\ \A i \in (own + 1)..(own + 4) : req.flags[i] = 16777226
          /\ SubSeq(req.names, 1, own) = NamesPerConstraint(pkg.Requires)
          /\ \A i \in 1..own : req.names[i] \notin SeqRange(RpmlibNames) /\ req.flags[i] < 16
          /\ rpm.deps.provides.names = NamesPerConstraint(pkg.Provides)
          /\ rpm.deps.conflicts.names = NamesPerConstraint(pkg.Conflicts)
          /\ rpm.deps.obsoletes.names = NamesPerConstraint(pkg.Replaces)
          /\ \A set \in {rpm.deps.provides, rpm.deps.conflicts, rpm.deps.obsoletes} :
                /\ AlignedArrays(set)
                /\ \A i \in 1..Len(set.names) :
                      set.names[i] \notin SeqRange(RpmlibNames) /\ set.flags[i] < 16

\* a requirement with two constraints and one without, and relations in the
\* other three lists: three elements, then the four pseudo-dependencies
C22_Witness ==
    /\ rpm.deps # NoDeps
    /\ rpm.deps.requires.names = <<"holo-files", "holo-files", "bar">> \o RpmlibNames
    /\ rpm.deps.requires.flags = <<12, 2, 0, 16777226, 16777226, 16777226, 16777226>>
    /\ rpm.deps.provides.names = <<"holo-files", "holo-files", "foo">>
    /\ rpm.deps.obsoletes.names = <<"foo">>

(***************************************************************************)
(* Properties of the .MTREE file                                           *)
(***************************************************************************)
\* the escaping as claimed: a byte up to 0x20 or above 0x7E, and a
\* backslash, becomes a backslash and three octal digits
RECURSIVE ClaimedEscape(_)
ClaimedEscape(text) ==
    IF text = <<>> THEN <<>>
    ELSE (IF Head(text) <= 32 \/ Head(text) > 126 \/ Head(text) = 92
          THEN <<92, 48 + (Head(text) \div 64), 48 + ((Head(text) \div 8) % 8),
                 48 + (Head(text) % 8)>>
          ELSE <<Head(text)>>)
         \o ClaimedEscape(Tail(text))

\* C23: what mtreeEscapeString returns has, for every byte of the text that
\* is at most 0x20 or above 0x7E or a backslash, a backslash and the three
\* octal digits of the byte, and every other byte as it is.
C23_EscapedBytes == mtree.done => mtree.escaped = ClaimedEscape(mtree.text)

\* the lines of .MTREE behind the two header lines
MtreeText == NodeAt(FSRoot, <<".MTREE">>).Content
NonHeaderLines == SubSeq(MtreeText, 3, Len(MtreeText))
OnlyFooConf ==
    /\ pc = "pacman built"
    /\ nodes.all = {[path |-> AbsPath(<<"etc", "foo.conf">>), entry |-> FooConf]}
\* "./etc/foo.conf size=2 md5digest=... sha256digest=..." with the digests of "x\n"
FooConfLine ==
    <<46, 47, 101, 116, 99, 47, 102, 111, 111, 46, 99, 111, 110, 102, 32, 115, 105,
      122, 101, 61, 50, 32, 109, 100, 53, 100, 105, 103, 101, 115, 116, 61, 52, 48,
      49, 98, 51, 48, 101, 51, 98, 56, 98, 53, 100, 54, 50, 57, 54, 51, 53, 97, 53,
      99, 54, 49, 51, 99, 100, 98, 55, 57, 49, 57, 32, 115, 104, 97, 50, 53, 54,
      100, 105, 103, 101, 115, 116, 61, 55, 51, 99, 98, 51, 56, 53, 56, 97, 54, 56,
      55, 97, 56, 52, 57, 52, 99, 97, 51, 51, 50, 51, 48, 53, 51, 48, 49, 54, 50,
      56, 50, 102, 51, 100, 97, 100, 51, 57, 100, 52, 50, 99, 102, 54, 50, 99, 97,
      52, 101, 55, 57, 100, 100, 97, 50, 97, 97, 99, 55, 100, 57, 97, 99>>
\* "./.PKGINFO" and "./etc type=dir mode=755"
PkgInfoPath == <<46, 47, 46, 80, 75, 71, 73, 78, 70, 79>>
EtcLine == <<46, 47, 101, 116, 99, 32, 116, 121, 112, 101, 61, 100, 105, 114, 32, 109, 111, 100, 101, 61, 55, 53, 53>>

=============================================================================
